---------------------------- MODULE Spec2Model ----------------------------
(***************************************************************************)
(* Model of the CV-processing pipeline of function_app.py:                 *)
(* process_candidate_cv, its two failure handlers, and the pure helpers    *)
(* it calls (identifier extraction, JSON validation, average score).       *)
(*                                                                         *)
(* Representation.                                                         *)
(*  - A file name or blob path is a sequence of tokens; the separators     *)
(*    "/", "_" and "." are tokens of their own and every other token is a  *)
(*    separator-free piece of text, so str.split is a split on a token.    *)
(*  - A Python value is a record [t |-> tag, v |-> payload]; None is       *)
(*    [t |-> "none", v |-> 0].  A dict is a function from its keys.        *)
(*  - An exception is the name of its class.                               *)
(***************************************************************************)
EXTENDS Integers, Sequences, FiniteSets, TLC

(***************************************************************************)
(* Python values                                                           *)
(***************************************************************************)
None == [t |-> "none", v |-> 0]
PStr(s) == [t |-> "str", v |-> s]
PInt(i) == [t |-> "int", v |-> i]
PBool(b) == [t |-> "bool", v |-> b]
PList(q) == [t |-> "list", v |-> q]
PDict(f) == [t |-> "dict", v |-> f]
PFloat(h) == [t |-> "float", v |-> h]      \* v in hundredths
PName(s) == [t |-> "name", v |-> s]        \* a str held as a token sequence

EmptyDict == PDict(<<>>)

\* bool(x) of a Python value
Truthy(x) ==
    CASE x.t = "none" -> FALSE
      [] x.t = "str" -> x.v # ""
      [] x.t = "int" -> x.v # 0
      [] x.t = "bool" -> x.v
      [] x.t = "list" -> Len(x.v) > 0
      [] x.t = "dict" -> DOMAIN x.v # {}
      [] OTHER -> TRUE

\* dict.get(key): the value, or None when the key is absent
DictGet(d, key) == IF key \in DOMAIN d.v THEN d.v[key] ELSE None

(***************************************************************************)
(* extract_values.py                                                       *)
(***************************************************************************)
RECURSIVE SplitFrom(_, _, _, _)
\* s.split(sep): cur is the piece being collected, acc the pieces so far
SplitFrom(s, sep, cur, acc) ==
    IF s = <<>> THEN Append(acc, cur)
    ELSE IF Head(s) = sep THEN SplitFrom(Tail(s), sep, <<>>, Append(acc, cur))
    ELSE SplitFrom(Tail(s), sep, Append(cur, Head(s)), acc)

Split(s, sep) == SplitFrom(s, sep, <<>>, <<>>)

RECURSIVE Join(_, _)
\* sep.join(parts)
Join(parts, sep) ==
    IF parts = <<>> THEN <<>>
    ELSE IF Len(parts) = 1 THEN parts[1]
    ELSE parts[1] \o <<sep>> \o Join(Tail(parts), sep)

get_file_name_with_extension(file_path) ==
    LET path_sections == Split(file_path, "/")
    IN  path_sections[Len(path_sections)]

get_file_name_without_extension(file_path) ==
    LET file_name == get_file_name_with_extension(file_path)
        file_sections == Split(file_name, ".")
    IN  IF Len(file_sections) > 1
        THEN Join(SubSeq(file_sections, 1, Len(file_sections) - 1), ".")
        ELSE file_name

get_id_rank(file_path) ==
    LET parts == Split(get_file_name_without_extension(file_path), "_")
    IN  IF Len(parts) > 0 THEN parts[1] ELSE <<>>

\* Mutant: the last token is taken in place of the second
get_id_candidate_LastToken(file_path) ==
    LET parts == Split(get_file_name_without_extension(file_path), "_")
    IN  parts[Len(parts)]

get_id_candidate(file_path) ==
    LET parts == Split(get_file_name_without_extension(file_path), "_")
    IN  IF Len(parts) > 1 THEN parts[2] ELSE <<>>

(***************************************************************************)
(* Exception classes: domain/exceptions.py and the Python built-ins        *)
(***************************************************************************)
ExcParent(c) ==
    CASE c = "JSONDecodeError" -> "ValueError"
      [] c = "ValueError" -> "Exception"
      [] c = "TypeError" -> "Exception"
      [] c = "AttributeError" -> "Exception"
      [] c = "AzureError" -> "Exception"
      [] c = "openai.APIError" -> "Exception"
      [] c = "APIConnectionError" -> "openai.APIError"
      [] c = "APIStatusError" -> "openai.APIError"
      [] c = "RateLimitError" -> "APIStatusError"
      [] c = "HttpResponseError" -> "AzureError"
      [] c = "ServiceRequestError" -> "AzureError"
      [] c = "ClientAuthenticationError" -> "HttpResponseError"
      [] c = "ResourceNotFoundError" -> "HttpResponseError"
      [] c = "DomainError" -> "Exception"
      [] c = "CVAnalysisError" -> "DomainError"
      [] c = "OpenAIError" -> "CVAnalysisError"
      [] c = "JSONValidationError" -> "CVAnalysisError"
      [] c = "DocumentIntelligenceError" -> "CVAnalysisError"
      [] c = "NoContentExtractedError" -> "CVAnalysisError"
      [] c = "APIError" -> "DomainError"
      [] c = "AuthenticationError" -> "DomainError"
      [] c = "KeyVaultError" -> "DomainError"
      [] c = "SecretNotFoundError" -> "KeyVaultError"
      [] OTHER -> "Exception"

RECURSIVE IsSubclass(_, _)
IsSubclass(c, base) ==
    IF c = base THEN TRUE
    ELSE IF c = "Exception" THEN FALSE
    ELSE \E parent \in {ExcParent(c)} : IsSubclass(parent, base)

\* isinstance(exc, (cls1, cls2, ...))
IsInstance(c, classes) == \E raised \in {c}, base \in classes : IsSubclass(raised, base)


(***************************************************************************)
(* Completion texts: concrete strings the completion service can return,   *)
(* and json.loads on each of them                                          *)
(***************************************************************************)
TextDictScores ==
    "{\"nameCandidate\": \"Ana\", \"cvAnalysis\": \"ok\", \"cvScore\": {\"A\": 100, \"B\": 75, \"C\": 30}}"
TextListScores ==
    "{\"nameCandidate\": \"Ana\", \"cvAnalysis\": \"ok\", \"cvScore\": [{\"Letter\": \"A\", \"Result\": 100}, {\"Letter\": \"B\", \"Result\": 50}]}"
TextEmptyList ==
    "{\"nameCandidate\": \"Ana\", \"cvAnalysis\": \"ok\", \"cvScore\": []}"
TextBadEntry ==
    "{\"nameCandidate\": \"Ana\", \"cvAnalysis\": \"ok\", \"cvScore\": [{\"Letter\": \"A\", \"Result\": 100}, {\"Letter\": \"B\", \"Result\": 101}]}"
TextNoScore == "{\"nameCandidate\": \"Ana\", \"cvAnalysis\": \"ok\"}"
TextNoAnalysis ==
    "{\"nameCandidate\": \"Ana\", \"cvScore\": [{\"Letter\": \"A\", \"Result\": 100}]}"
TextNoName ==
    "{\"cvAnalysis\": \"ok\", \"cvScore\": [{\"Letter\": \"A\", \"Result\": 100}]}"
TextNameNotStr ==
    "{\"nameCandidate\": 5, \"cvAnalysis\": \"ok\", \"cvScore\": [{\"Letter\": \"A\", \"Result\": 100}]}"
TextArrayRoot == "[1, 2]"
TextNotJson == "Claro, este es el analisis del CV"
\* Arrays nested deeper than the recursion limit of the interpreter
TextDeeplyNested == "[[[[[[[[ ... ]]]]]]]]"

ScoreItem(letter, result) == PDict([Letter |-> PStr(letter), Result |-> PInt(result)])

\* What json.loads yields on a text: [exc, val]; exc = "none" when it returns
json_loads(text) ==
    CASE text = TextDictScores ->
           [exc |-> "none",
            val |-> PDict([nameCandidate |-> PStr("Ana"), cvAnalysis |-> PStr("ok"),
                           cvScore |-> PDict([A |-> PInt(100), B |-> PInt(75), C |-> PInt(30)])])]
      [] text = TextListScores ->
           [exc |-> "none",
            val |-> PDict([nameCandidate |-> PStr("Ana"), cvAnalysis |-> PStr("ok"),
                           cvScore |-> PList(<<ScoreItem("A", 100), ScoreItem("B", 50)>>)])]
      [] text = TextEmptyList ->
           [exc |-> "none",
            val |-> PDict([nameCandidate |-> PStr("Ana"), cvAnalysis |-> PStr("ok"),
                           cvScore |-> PList(<<>>)])]
      [] text = TextBadEntry ->
           [exc |-> "none",
            val |-> PDict([nameCandidate |-> PStr("Ana"), cvAnalysis |-> PStr("ok"),
                           cvScore |-> PList(<<ScoreItem("A", 100), ScoreItem("B", 101)>>)])]
      [] text = TextNoScore ->
           [exc |-> "none",
            val |-> PDict([nameCandidate |-> PStr("Ana"), cvAnalysis |-> PStr("ok")])]
      [] text = TextNoAnalysis ->
           [exc |-> "none",
            val |-> PDict([nameCandidate |-> PStr("Ana"),
                           cvScore |-> PList(<<ScoreItem("A", 100)>>)])]
      [] text = TextNoName ->
           [exc |-> "none",
            val |-> PDict([cvAnalysis |-> PStr("ok"),
                           cvScore |-> PList(<<ScoreItem("A", 100)>>)])]
      [] text = TextNameNotStr ->
           [exc |-> "none",
            val |-> PDict([nameCandidate |-> PInt(5), cvAnalysis |-> PStr("ok"),
                           cvScore |-> PList(<<ScoreItem("A", 100)>>)])]
      [] text = TextArrayRoot ->
           [exc |-> "none", val |-> PList(<<PInt(1), PInt(2)>>)]
      [] text = TextDeeplyNested -> [exc |-> "RecursionError", val |-> None]
      [] OTHER -> [exc |-> "JSONDecodeError", val |-> None]

(***************************************************************************)
(* validate_process_json.py                                                *)
(***************************************************************************)
VALID_LETTERS ==
    {"A", "B", "C", "D", "E", "F", "G", "H", "I", "J", "K", "L", "M",
     "N", "O", "P", "Q", "R", "S", "T", "U", "V", "W", "X", "Y", "Z"}

\* One pass of the loop body over a cvScore item
ScoreItemValid(item) ==
    IF item.t # "dict" THEN FALSE
    ELSE IF ~("Letter" \in DOMAIN item.v /\ "Result" \in DOMAIN item.v) THEN FALSE
    ELSE LET letter == item.v["Letter"]
             result == item.v["Result"]
         IN  IF letter.t # "str" THEN FALSE
             ELSE IF Len(letter.v) # 1 THEN FALSE
             ELSE IF letter.v \notin VALID_LETTERS THEN FALSE
             ELSE IF result.t # "int" THEN FALSE      \* bool has its own tag
             ELSE IF ~(0 <= result.v /\ result.v <= 100) THEN FALSE
             ELSE TRUE

RECURSIVE ValidateItems(_, _)
\* Mutant: an invalid item is skipped and the valid ones are kept
ValidateItems_KeepValid(items, temp_validated_list) ==
    IF items = <<>> THEN PList(temp_validated_list)
    ELSE IF ScoreItemValid(Head(items))
         THEN ValidateItems(Tail(items), Append(temp_validated_list, Head(items)))
         ELSE ValidateItems(Tail(items), temp_validated_list)

\* The for loop: items accepted so far, or None at the first invalid item
ValidateItems(items, temp_validated_list) ==
    IF items = <<>> THEN PList(temp_validated_list)
    ELSE IF ScoreItemValid(Head(items))
         THEN ValidateItems(Tail(items), Append(temp_validated_list, Head(items)))
         ELSE None

ValidatedScoreList(raw_cv_score) ==
    IF raw_cv_score.t = "none" THEN None
    ELSE IF raw_cv_score.t # "list" THEN None
    ELSE ValidateItems(raw_cv_score.v, <<>>)

\* Mutant: a value of the wrong type is passed through
FinalString_PassThrough(x) == x

\* Lines 105-111: str(x) if isinstance(x, str) else None
FinalString(x) == IF x.t = "str" THEN x ELSE None

\* Lines 42-116 on the value json.loads returned
\* [exc, val]: val = <<validated_score_list, final_analysis, final_name>>
validate_parsed(parsed_data) ==
    IF parsed_data.t # "dict"
    THEN [exc |-> "TypeError", val |-> <<None, None, None>>]
    ELSE LET raw_cv_score == DictGet(parsed_data, "cvScore")
             cv_analysis == DictGet(parsed_data, "cvAnalysis")
             candidate_name == DictGet(parsed_data, "nameCandidate")
         IN  [exc |-> "none",
              val |-> <<ValidatedScoreList(raw_cv_score),
                        FinalString(cv_analysis),
                        FinalString(candidate_name)>>]

extract_and_validate_cv_data_from_json(json_string) ==
    IF json_string = "" THEN [exc |-> "none", val |-> <<None, None, None>>]
    ELSE LET parsed == json_loads(json_string)
         IN  IF parsed.exc # "none" THEN [exc |-> parsed.exc, val |-> <<None, None, None>>]
             ELSE validate_parsed(parsed.val)

(***************************************************************************)
(* promedio_scores.py                                                      *)
(***************************************************************************)
RECURSIVE KeyOrder(_)
\* The keys of a dict in an insertion order
KeyOrder(keys) ==
    IF keys = {} THEN <<>>
    ELSE LET k == CHOOSE x \in keys : TRUE
         IN  <<k>> \o KeyOrder(keys \ {k})

RECURSIVE sum(_)
\* sum(scores): the built-in, from the left
sum(scores) == IF scores = <<>> THEN 0 ELSE sum(SubSeq(scores, 1, Len(scores) - 1)) + scores[Len(scores)]

\* Mutant: the average is cut to two decimals instead of rounded
RoundedHundredths_Truncated(total, count) == (100 * total) \div count

\* round(total / count, 2) in hundredths; a tie goes to the even neighbour
\* (a tie is a multiple of 1/8 here and so exact in binary floating point)
RoundedHundredths(total, count) ==
    LET q == (100 * total) \div count
        r == (100 * total) % count
    IN  IF 2 * r < count THEN q
        ELSE IF 2 * r > count THEN q + 1
        ELSE IF q % 2 = 0 THEN q ELSE q + 1

\* Lines 22-55, for a dict whose keys were inserted in the given order
calculate_average_score_in_order(cv_scores_dict, order) ==
    IF cv_scores_dict.t = "none" THEN None
    ELSE IF cv_scores_dict.t # "dict" THEN None
    ELSE IF DOMAIN cv_scores_dict.v = {} THEN None
    ELSE LET scores == [i \in DOMAIN order |-> cv_scores_dict.v[order[i]].v]
             total_score == sum(scores)
             count == Len(scores)
         IN  PFloat(RoundedHundredths(total_score, count))

calculate_average_score_from_dict(cv_scores_dict) ==
    calculate_average_score_in_order(
        cv_scores_dict,
        IF cv_scores_dict.t = "dict" THEN KeyOrder(DOMAIN cv_scores_dict.v) ELSE <<>>)


(***************************************************************************)
(* document_intelligence_adapter.py and azure_openai_adapter.py: what the  *)
(* clients do, and what the adapters make of it                            *)
(***************************************************************************)
\* Defaults of _retry_on_service_error
max_retries == 3
retry_delay == 30

\* How one call of the Document Intelligence client ends
ClientOutcomes ==
    { "content", "empty", "ServiceRequestError", "HttpResponseError429",
      "HttpResponseError500", "ClientAuthenticationError", "OSError" }
TransientOutcomes == { "ServiceRequestError", "HttpResponseError429" }

\* The class of the exception a client outcome is
ClientRaises(outcome) ==
    CASE outcome = "ServiceRequestError" -> "ServiceRequestError"
      [] outcome = "HttpResponseError429" -> "HttpResponseError"
      [] outcome = "HttpResponseError500" -> "HttpResponseError"
      [] outcome = "ClientAuthenticationError" -> "ClientAuthenticationError"
      [] outcome = "OSError" -> "OSError"
      [] OTHER -> "none"

\* Mutant: the body of analyze_cv lets the exception of the client pass
analyze_cv_raises_Raw(outcome) ==
    IF outcome = "content" THEN "none"
    ELSE IF outcome = "empty" THEN "NoContentExtractedError"
    ELSE ClientRaises(outcome)

\* Lines 174-201: what the body of analyze_cv raises ("none": it returns)
analyze_cv_raises(outcome) ==
    IF outcome = "content" THEN "none"
    ELSE IF outcome = "empty" THEN "NoContentExtractedError"
    ELSE IF IsInstance(ClientRaises(outcome), {"NoContentExtractedError"})
    THEN ClientRaises(outcome)
    ELSE "DocumentIntelligenceError"

Pow2(n) == IF n <= 0 THEN 1 ELSE IF n = 1 THEN 2 ELSE IF n = 2 THEN 4 ELSE 8

\* Defaults of _retry_on_rate_limit
rate_limit_max_retries == 3
rate_limit_retry_delay == 30

\* How one call of client.chat.completions.create ends
CompletionOutcomes ==
    { "content", "empty", "RateLimitError", "APIConnectionError", "APIStatusError",
      "TimeoutError" }

\* Mutant: a completion without content is returned as it is
_create_completion_raises_EmptyReturned(outcome) ==
    IF outcome \in {"content", "empty"} THEN "none" ELSE "OpenAIError"

\* Lines 162-201: what _create_completion raises ("none": it returns)
_create_completion_raises(outcome) ==
    IF outcome = "content" THEN "none"
    ELSE IF outcome = "empty" THEN "OpenAIError"
    ELSE IF IsInstance(outcome, {"OpenAIError"}) THEN outcome
    ELSE "OpenAIError"

RECURSIVE get_completion_run(_, _)
\* Lines 89-121 around lines 127-201: the wrapper loop from its pass number
\* retries + 1 on, the client answering as the script says
get_completion_run(client_script, retries) ==
    LET outcome == client_script[retries + 1]
        e == _create_completion_raises(outcome)
    IN  IF e = "none"
        THEN [raises |-> "none", client_calls |-> retries + 1]
        ELSE IF IsInstance(e, {"RateLimitError"})
        THEN IF retries + 1 < rate_limit_max_retries
             THEN get_completion_run(client_script, retries + 1)
             ELSE [raises |-> "OpenAIError", client_calls |-> retries + 1]
        ELSE [raises |-> "OpenAIError", client_calls |-> retries + 1]

\* Lines 163-173: what create(model=self.deployment, ...) can end as; without
\* a deployment name the service has nothing to answer with
ClientAnswers(deployment) ==
    IF deployment THEN CompletionOutcomes ELSE CompletionOutcomes \ {"content", "empty"}

\* completion.choices[0].message.content
CompletionContent(outcome, text) == IF outcome = "content" THEN text ELSE ""

(***************************************************************************)
(* function_app.py: constants, inputs and environment outcomes             *)
(***************************************************************************)
CANDIDATES_CONTAINER == "candidates"
RESULTS_POST_OPENAI_CONTAINER == "resultados-post-openai"
MANUAL_ERROR_CONTAINER == "error"

\* Deliveries of the item to the blob trigger within one behaviour
MaxRuns == 2

\* inputblob.name of the delivered item
BlobNames ==
    { <<"candidates", "/", "r1", "_", "c1", ".", "pdf">>,
      <<"candidates", "/", "r1", ".", "pdf">>,
      <<"candidates", "/", "_", "c1", ".", "pdf">>,
      <<"candidates", "/", "error", "/", "r1", "_", "c1", ".", "pdf">>,
      <<"candidates", "/", "2024", "/", "r1", "_", "c1", ".", "pdf">>,
      <<"Candidates", "/", "r1", "_", "c1", ".", "pdf">>,
      <<"otros", "/", "r1", "_", "c1", ".", "pdf">>,
      <<"r1", "_", "c1", ".", "pdf">>,
      << >> }

\* Texts the completion service returns (its adapter never returns "")
CompletionTexts ==
    { TextDictScores, TextListScores, TextEmptyList, TextBadEntry, TextNoScore,
      TextNoAnalysis, TextNoName, TextNameNotStr, TextArrayRoot, TextNotJson,
      TextDeeplyNested }

\* Texts Document Intelligence returns, and those str.strip() leaves empty
OcrTexts == { "Ana Perez. Ingeniera. 5 anios de experiencia", "   " }
WhitespaceOnly == { "", " ", "   " }
Strip(s) == IF s \in WhitespaceOnly THEN "" ELSE s

\* Bodies GET /Resumen/{id} returns (None: a 2xx response without content)
ResumenFull == PDict([profileDescription |-> PStr("Analista"), variablesContent |-> PStr("A, B, C")])
ResumenNoCriteria == PDict([profileDescription |-> PStr("Analista")])
ResumenBodies == { ResumenFull, ResumenNoCriteria, None }

\* How a call of RestApiAdapter ends: _make_request raises APIError,
\* get_credentials raises AuthenticationError
RestOutcomes == { "ok", "APIError", "AuthenticationError" }
\* How a call to Blob Storage ends
BlobOutcomes == { "ok", "fail" }
\* Which adapter finds environment variables missing: one that its
\* constructor tests, or the deployment name of the completion adapter
AdapterConfigs == { "ok", "docintel", "openai", "rest", "deployment" }

(***************************************************************************)
(* State                                                                   *)
(***************************************************************************)
VARIABLES
    blob_name,        \* inputblob.name
    run,              \* deliveries so far
    pc,               \* position of the current run in process_candidate_cv
    loc,              \* the local variables of process_candidate_cv
    exc,              \* class of the exception being handled, or "none"
    escaped,          \* class of the exception that leaves the function, or "none"
    source,           \* the item is in the candidates container
    partial_results,  \* blobs of the resultados-post-openai container
    error_area,       \* blobs of the error container
    calls,            \* collaborator calls of the current run, in order
    validator,        \* a call of extract_and_validate_cv_data_from_json on its own
    scorer,           \* a call of calculate_average_score_from_dict on its own
    ocr,              \* a call of DocumentIntelligenceAdapter.analyze_cv on its own
    openai,           \* a call of AzureOpenAIAdapter.get_completion on its own
    creds,            \* RestApiAdapter instances and their cached credentials
    extractor,        \* a call of get_id_rank and get_id_candidate on its own
    embedder,         \* a call of EmbeddingGenerator.generate_embeddings on its own
    indexer           \* a call of AzureAISearchAdapter.upload_documents on its own

\* The pipeline, and the components that are also exercised on their own
pipeline == <<blob_name, run, pc, loc, exc, escaped, source, partial_results, error_area, calls>>
units == <<validator, scorer, ocr, openai, creds, extractor, embedder, indexer>>
vars == <<blob_name, run, pc, loc, exc, escaped, source, partial_results, error_area, calls,
          validator, scorer, ocr, openai, creds, extractor, embedder, indexer>>

\* A component that is not being exercised
Off == [pc |-> "off"]
UnitsIdle ==
    /\ validator = Off
    /\ scorer = Off
    /\ ocr = Off
    /\ openai = Off
    /\ creds = Off
    /\ extractor = Off
    /\ embedder = Off
    /\ indexer = Off

\* Lines 330-339
InitLocals ==
    [ file_name |-> <<>>,
      rank_id |-> <<>>,
      candidate_id |-> <<>>,
      blob_service_client |-> FALSE,
      doc_intel_adapter |-> FALSE,
      openai_adapter |-> FALSE,
      openai_deployment |-> FALSE,       \* openai_adapter.deployment is set
      rest_api_adapter |-> FALSE,
      resumen_data |-> None,
      extracted_text |-> None,
      analysis_result_str |-> None,
      cv_score |-> None,
      cv_analysis |-> None,
      candidate_name |-> None,
      promedio_scores |-> None,
      processed_successfully |-> FALSE ]

Init ==
    /\ blob_name \in BlobNames
    /\ run = 0
    /\ pc = "idle"
    /\ loc = InitLocals
    /\ exc = "none"
    /\ escaped = "none"
    /\ source = FALSE
    /\ partial_results = {}
    /\ error_area = {}
    /\ calls = <<>>
    /\ UnitsIdle

\* A collaborator call: ok is FALSE when it raised, ret is what it returned
Call(op, arg, ok) == [op |-> op, arg |-> arg, ok |-> ok, ret |-> None]
CallReturning(op, arg, ret) == [op |-> op, arg |-> arg, ok |-> TRUE, ret |-> ret]
\* A call of an adapter, with how each call it made of its client ended
AdapterCall(op, arg, ok, ret, client) ==
    [op |-> op, arg |-> arg, ok |-> ok, ret |-> ret, client |-> client]

\* No blob has been delivered and none will be: a component is exercised alone
PipelineOff ==
    /\ blob_name = <<>>
    /\ run = 0
    /\ pc = "off"
    /\ loc = InitLocals
    /\ exc = "none"
    /\ escaped = "none"
    /\ source = FALSE
    /\ partial_results = {}
    /\ error_area = {}
    /\ calls = <<>>

(***************************************************************************)
(* The except clauses of process_candidate_cv, in source order             *)
(***************************************************************************)
EarlyClasses ==
    { "ValueError", "SecretNotFoundError", "KeyVaultError", "APIError",
      "AuthenticationError", "DocumentIntelligenceError", "NoContentExtractedError",
      "OpenAIError" }
PostOpenAIClasses == { "JSONValidationError", "TypeError", "APIError", "AuthenticationError" }

\* Mutant: the exception is dropped and the run goes on with the completion
HandlerOf_GoesOn(c) == "get_completion"

\* The first clause whose classes the exception is an instance of
HandlerOf(c) ==
    IF IsInstance(c, EarlyClasses) THEN "early_handler"
    ELSE IF IsInstance(c, PostOpenAIClasses) THEN "late_handler"
    ELSE "unexpected_handler"

\* raise c inside the try block, with the locals as newloc
Raise(c, newloc) ==
    /\ loc' = newloc
    /\ exc' = c
    /\ pc' = HandlerOf(c)


(***************************************************************************)
(* process_candidate_cv: the trigger and the try block                     *)
(***************************************************************************)
\* str.lower() of a token
LowerToken(tok) ==
    CASE tok = "Candidates" -> "candidates"
      [] tok = "CANDIDATES" -> "candidates"
      [] OTHER -> tok
Lower(s) == [i \in DOMAIN s |-> LowerToken(s[i])]

\* Position of the first sep in s, 0 when there is none
FirstIndex(s, sep) ==
    IF \E i \in DOMAIN s : s[i] = sep
    THEN CHOOSE i \in DOMAIN s : s[i] = sep /\ \A j \in 1..(i - 1) : s[j] # sep
    ELSE 0

\* os.path.basename
basename(path) == LET sections == Split(path, "/") IN sections[Len(sections)]

\* Mutant: an item in a sub-path is processed as well
AcceptedFileName_SubPaths(name) ==
    IF name = <<>> THEN <<>>
    ELSE LET cut == FirstIndex(name, "/")
         IN  IF cut = 0 THEN <<>>
             ELSE LET container_from_path == SubSeq(name, 1, cut - 1)
                      blob_name_from_path == SubSeq(name, cut + 1, Len(name))
                  IN  IF Lower(container_from_path) # <<CANDIDATES_CONTAINER>> THEN <<>>
                      ELSE basename(blob_name_from_path)

\* Lines 301-327: the file name to process, or <<>> when the event is ignored
AcceptedFileName(name) ==
    IF name = <<>> THEN <<>>
    ELSE LET cut == FirstIndex(name, "/")
         IN  IF cut = 0 THEN <<>>                       \* unpacking raises ValueError
             ELSE LET container_from_path == SubSeq(name, 1, cut - 1)
                      blob_name_from_path == SubSeq(name, cut + 1, Len(name))
                  IN  IF Lower(container_from_path) # <<CANDIDATES_CONTAINER>> THEN <<>>
                      ELSE IF \E i \in DOMAIN blob_name_from_path : blob_name_from_path[i] = "/"
                           THEN <<>>
                           ELSE basename(blob_name_from_path)

\* A blob is written to the candidates container and the trigger fires
Trigger ==
    /\ pc \in {"idle", "done"}
    /\ run < MaxRuns
    /\ run' = run + 1
    /\ source' = TRUE
    /\ loc' = InitLocals
    /\ exc' = "none"
    /\ escaped' = "none"
    /\ calls' = <<>>
    /\ pc' = "start"
    /\ UNCHANGED <<blob_name, partial_results, error_area>>
    /\ UNCHANGED units

\* Lines 301-339
Start ==
    /\ pc = "start"
    /\ LET file_name == AcceptedFileName(blob_name)
       IN  IF file_name = <<>>
           THEN pc' = "done" /\ loc' = loc
           ELSE pc' = "ids" /\ loc' = [loc EXCEPT !.file_name = file_name]
    /\ UNCHANGED <<blob_name, run, exc, escaped, source, partial_results, error_area, calls>>
    /\ UNCHANGED units

\* Lines 342-356: step 0, the identifiers and the storage client
ExtractIds ==
    /\ pc = "ids"
    /\ \E connection_string \in BOOLEAN :
         LET ids == [loc EXCEPT !.rank_id = get_id_rank(loc.file_name),
                                !.candidate_id = get_id_candidate(loc.file_name)]
         IN  IF ids.rank_id = <<>> \/ ids.candidate_id = <<>>
             THEN Raise("ValueError", ids)
             ELSE IF ~connection_string
             THEN Raise("ValueError", ids)
             ELSE /\ loc' = [ids EXCEPT !.blob_service_client = TRUE]
                  /\ pc' = "adapters"
                  /\ exc' = exc
    /\ UNCHANGED <<blob_name, run, escaped, source, partial_results, error_area, calls>>
    /\ UNCHANGED units

\* Lines 366-374: step 1, the three adapters are built in this order
InitAdapters ==
    /\ pc = "adapters"
    /\ \E missing \in AdapterConfigs :
         LET built == [loc EXCEPT !.doc_intel_adapter = missing # "docintel",
                                  !.openai_adapter = missing \notin {"docintel", "openai"},
                                  !.openai_deployment =
                                      missing \notin {"docintel", "openai", "deployment"},
                                  !.rest_api_adapter = missing \in {"ok", "deployment"}]
         IN  IF missing \notin {"ok", "deployment"}
             THEN Raise("ValueError", built)
             ELSE loc' = built /\ pc' = "get_resumen" /\ exc' = exc
    /\ UNCHANGED <<blob_name, run, escaped, source, partial_results, error_area, calls>>
    /\ UNCHANGED units

\* Lines 380-387: step 2, the context lookup
GetResumen ==
    /\ pc = "get_resumen"
    /\ \E outcome \in RestOutcomes, body \in ResumenBodies :
         IF outcome # "ok"
         THEN /\ calls' = Append(calls, Call("get_resumen", PName(loc.rank_id), FALSE))
              /\ Raise(outcome, loc)
         ELSE /\ calls' = Append(calls, CallReturning("get_resumen", PName(loc.rank_id), body))
              /\ LET got == [loc EXCEPT !.resumen_data = body]
                 IN  IF body.t # "dict"
                     THEN Raise("AttributeError", got)       \* None has no .get
                     ELSE IF DictGet(body, "profileDescription") = None
                             \/ DictGet(body, "variablesContent") = None
                     THEN Raise("APIError", got)
                     ELSE loc' = got /\ pc' = "analyze_cv" /\ exc' = exc
    /\ UNCHANGED <<blob_name, run, escaped, source, partial_results, error_area>>
    /\ UNCHANGED units

\* Lines 390-395: step 3, text extraction
AnalyzeCv ==
    /\ pc = "analyze_cv"
    /\ \E outcome \in {"ok", "DocumentIntelligenceError", "NoContentExtractedError"},
          text \in OcrTexts :
         IF outcome # "ok"
         THEN /\ calls' = Append(calls, Call("analyze_cv", None, FALSE))
              /\ Raise(outcome, loc)
         ELSE /\ calls' = Append(calls, CallReturning("analyze_cv", None, PStr(text)))
              /\ LET got == [loc EXCEPT !.extracted_text = PStr(text)]
                 IN  IF text = "" \/ Strip(text) = ""
                     THEN Raise("NoContentExtractedError", got)
                     ELSE loc' = got /\ pc' = "get_completion" /\ exc' = exc
    /\ UNCHANGED <<blob_name, run, escaped, source, partial_results, error_area>>
    /\ UNCHANGED units

\* Lines 398-412: step 4, the completion
GetCompletion ==
    /\ pc = "get_completion"
    /\ \E client_script \in [1..rate_limit_max_retries -> ClientAnswers(loc.openai_deployment)],
          text \in CompletionTexts :
         LET r == get_completion_run(client_script, 0)
             made == SubSeq(client_script, 1, r.client_calls)
             content == PStr(CompletionContent(made[Len(made)], text))
         IN  IF r.raises # "none"
             THEN /\ calls' = Append(calls, AdapterCall("get_completion", loc.extracted_text,
                                                        FALSE, None, made))
                  /\ Raise(r.raises, loc)
             ELSE /\ calls' = Append(calls, AdapterCall("get_completion", loc.extracted_text,
                                                        TRUE, content, made))
                  /\ LET got == [loc EXCEPT !.analysis_result_str = content]
                     IN  IF ~Truthy(got.analysis_result_str)
                         THEN Raise("OpenAIError", got)
                         ELSE loc' = got /\ pc' = "validate" /\ exc' = exc
    /\ UNCHANGED <<blob_name, run, escaped, source, partial_results, error_area>>
    /\ UNCHANGED units

\* Lines 419-425: step 5, validation of the completion
ValidateJson ==
    /\ pc = "validate"
    /\ LET r == extract_and_validate_cv_data_from_json(loc.analysis_result_str.v)
           got == [loc EXCEPT !.cv_score = r.val[1],
                              !.cv_analysis = r.val[2],
                              !.candidate_name = r.val[3]]
       IN  IF r.exc # "none"
           THEN Raise(r.exc, loc)
           ELSE IF got.cv_score = None \/ got.cv_analysis = None \/ got.candidate_name = None
           THEN Raise("JSONValidationError", got)
           ELSE loc' = got /\ pc' = "average" /\ exc' = exc
    /\ UNCHANGED <<blob_name, run, escaped, source, partial_results, error_area, calls>>
    /\ UNCHANGED units

\* Mutant: an undefined average is not treated as a failure
CalculateAverage_Unchecked ==
    /\ pc = "average"
    /\ loc' = [loc EXCEPT !.promedio_scores = calculate_average_score_from_dict(loc.cv_score)]
    /\ pc' = "add_scores"
    /\ exc' = exc
    /\ UNCHANGED <<blob_name, run, escaped, source, partial_results, error_area, calls>>
    /\ UNCHANGED units

\* Lines 428-433: step 6, the average
CalculateAverage ==
    /\ pc = "average"
    /\ LET got == [loc EXCEPT !.promedio_scores = calculate_average_score_from_dict(loc.cv_score)]
       IN  IF got.promedio_scores = None
           THEN Raise("ValueError", got)
           ELSE loc' = got /\ pc' = "add_scores" /\ exc' = exc
    /\ UNCHANGED <<blob_name, run, escaped, source, partial_results, error_area, calls>>
    /\ UNCHANGED units


\* Lines 436-441: step 8a
AddScores ==
    /\ pc = "add_scores"
    /\ \E outcome \in RestOutcomes :
         /\ calls' = Append(calls, Call("add_scores", loc.cv_score, outcome = "ok"))
         /\ IF outcome # "ok"
            THEN Raise(outcome, loc)
            ELSE loc' = loc /\ pc' = "save_resumen" /\ exc' = exc
    /\ UNCHANGED <<blob_name, run, escaped, source, partial_results, error_area>>
    /\ UNCHANGED units

\* Lines 444-452: step 8b
SaveResumen ==
    /\ pc = "save_resumen"
    /\ \E outcome \in RestOutcomes :
         /\ calls' = Append(calls, Call("save_resumen", loc.promedio_scores, outcome = "ok"))
         /\ IF outcome # "ok"
            THEN Raise(outcome, loc)
            ELSE loc' = loc /\ pc' = "update_candidate" /\ exc' = exc
    /\ UNCHANGED <<blob_name, run, escaped, source, partial_results, error_area>>
    /\ UNCHANGED units

\* Mutant: the success flag is set before the status call is made
UpdateCandidateSuccess_FlagFirst ==
    /\ pc = "update_candidate"
    /\ \E outcome \in RestOutcomes :
         LET flagged == [loc EXCEPT !.processed_successfully = TRUE]
         IN  /\ calls' = Append(calls, Call("update_candidate", None, outcome = "ok"))
             /\ IF outcome # "ok"
                THEN Raise(outcome, flagged)
                ELSE loc' = flagged /\ pc' = "finally" /\ exc' = exc
    /\ UNCHANGED <<blob_name, run, escaped, source, partial_results, error_area>>
    /\ UNCHANGED units

\* Lines 455-465: step 8c and the success flag
UpdateCandidateSuccess ==
    /\ pc = "update_candidate"
    /\ \E outcome \in RestOutcomes :
         /\ calls' = Append(calls, Call("update_candidate", None, outcome = "ok"))
         /\ IF outcome # "ok"
            THEN Raise(outcome, loc)
            ELSE /\ loc' = [loc EXCEPT !.processed_successfully = TRUE]
                 /\ pc' = "finally"
                 /\ exc' = exc
    /\ UNCHANGED <<blob_name, run, escaped, source, partial_results, error_area>>
    /\ UNCHANGED units

(***************************************************************************)
(* The failure handlers                                                    *)
(***************************************************************************)
\* A str with its length in characters: a literal, str(e) of an exception
\* whose text has n characters, and a + b
Literal(s) == [t |-> "name", v |-> <<s>>, len |-> Len(s)]
ExceptionText(n) == [t |-> "name", v |-> <<"detail">>, len |-> n]
Cat(a, b) == [t |-> "name", v |-> a.v \o b.v, len |-> a.len + b.len]

\* The texts an exception can carry: a short one, and one longer than any cap
ExceptionTexts == { ExceptionText(10), ExceptionText(5000) }

\* Mutant: the string is passed whole
Slice_Whole(s, n) == s

\* s[:n]; the parts are kept, the last of them cut when s is longer than n
Slice(s, n) == [t |-> "name", v |-> s.v, len |-> IF s.len > n THEN n ELSE s.len]

\* f"{type(e).__name__}: {e}"
ErrorDetails(c, text) == Cat(Cat(Literal(c), Literal(": ")), text)

\* Lines 131-140: the call appended to the log and the item's presence after
\* it; ResourceNotFoundError and every other exception are swallowed
DeleteRaised(outcome) ==
    IF ~source THEN "ResourceNotFoundError"
    ELSE IF outcome # "ok" THEN "HttpResponseError"
    ELSE "none"
DeleteCall(outcome) ==
    [op |-> "delete_blob", arg |-> None, ok |-> source /\ outcome = "ok", ret |-> None,
     raised |-> DeleteRaised(outcome)]
SourceAfterDelete(outcome) == IF outcome = "ok" THEN FALSE ELSE source

\* Mutant: the absence of the item is raised to the caller
_delete_blob_if_exists_NotFoundRaised(raised) ==
    IF IsInstance(raised, {"ResourceNotFoundError"}) THEN raised ELSE "none"

\* Lines 133-140: the exception that leaves _delete_blob_if_exists
_delete_blob_if_exists(raised) ==
    IF raised = "none" THEN "none"
    ELSE IF IsInstance(raised, {"ResourceNotFoundError"}) THEN "none"
    ELSE IF IsInstance(raised, {"Exception"}) THEN "none"
    ELSE raised

\* The exception that leaves the function once the deletion was attempted
EscapedAfterDelete(outcome) ==
    LET e == _delete_blob_if_exists(DeleteRaised(outcome))
    IN  IF e # "none" THEN e ELSE escaped

\* Mutant: the handlers forget the status report
StatusCalls_NoReport(message, outcome) == << >>

\* Lines 154-160 and 227-233: the status report, when it is attempted
StatusCalls(message, outcome) ==
    IF loc.rest_api_adapter /\ loc.candidate_id # <<>>
    THEN << Call("update_candidate", Slice(message, 1000), outcome = "ok") >>
    ELSE << >>

\* Mutant: a status report that fails leaves the handler as an exception
_handle_processing_error_ReportRaises(error_reason, status, deletion) ==
    IF StatusCalls(error_reason, status) # << >> /\ status # "ok"
    THEN /\ calls' = calls \o StatusCalls(error_reason, status)
         /\ escaped' = status
         /\ UNCHANGED <<source, partial_results>>
    ELSE /\ calls' = calls \o StatusCalls(error_reason, status) \o << DeleteCall(deletion) >>
         /\ source' = SourceAfterDelete(deletion)
         /\ escaped' = EscapedAfterDelete(deletion)
         /\ UNCHANGED partial_results

\* Lines 142-167
_handle_processing_error(error_reason, status, deletion) ==
    /\ calls' = calls \o StatusCalls(error_reason, status) \o << DeleteCall(deletion) >>
    /\ source' = SourceAfterDelete(deletion)
    /\ escaped' = EscapedAfterDelete(deletion)
    /\ UNCHANGED partial_results

\* Line 186
ResultFilename(rank_id, candidate_id, failed_step) ==
    rank_id \o <<"_">> \o candidate_id
        \o <<"_", "partial", "_", "result", "_", failed_step, ".", "json">>

\* Mutant: the record keeps the parsed analysis in place of the raw completion
IntermediateData_ParsedAnalysis(failed_step, error_details) ==
    [ rank_id |-> loc.rank_id,
      candidate_id |-> loc.candidate_id,
      get_resumen_result |-> loc.resumen_data,
      document_intelligence_transcription |-> loc.extracted_text,
      azure_openai_raw_result |-> loc.cv_analysis,
      failure_info |-> [failed_step |-> failed_step, error_details |-> error_details] ]

\* Lines 190-200
IntermediateData(failed_step, error_details) ==
    [ rank_id |-> loc.rank_id,
      candidate_id |-> loc.candidate_id,
      get_resumen_result |-> loc.resumen_data,
      document_intelligence_transcription |-> loc.extracted_text,
      azure_openai_raw_result |-> loc.analysis_result_str,
      failure_info |-> [failed_step |-> failed_step, error_details |-> error_details] ]

\* upload_blob(..., overwrite=True)
Uploaded(blobs, name, data) ==
    {b \in blobs : b.name # name} \cup {[name |-> name, data |-> data]}

\* Mutant: the item is reported and deleted whether the record was saved or not
_save_intermediate_result_and_cleanup_DeleteAnyway(failed_step, error_details, client, upload, status, deletion) ==
    LET result_filename == ResultFilename(loc.rank_id, loc.candidate_id, failed_step)
        message == Cat(Cat(Cat(Literal("Error en "), Literal(failed_step)), Literal(": ")),
                       error_details)
    IN  IF client # "ok"
        THEN /\ escaped' = "HttpResponseError"
             /\ UNCHANGED <<calls, source, partial_results>>
        ELSE /\ partial_results' =
                   IF upload # "ok" THEN partial_results
                   ELSE Uploaded(partial_results, result_filename,
                                 IntermediateData(failed_step, error_details))
             /\ calls' = Append(calls, Call("upload_blob", PName(result_filename), upload = "ok"))
                           \o StatusCalls(message, status) \o << DeleteCall(deletion) >>
             /\ source' = SourceAfterDelete(deletion)
             /\ escaped' = EscapedAfterDelete(deletion)

\* Lines 169-239
_save_intermediate_result_and_cleanup(failed_step, error_details, client, upload, status, deletion) ==
    LET result_filename == ResultFilename(loc.rank_id, loc.candidate_id, failed_step)
        message == Cat(Cat(Cat(Literal("Error en "), Literal(failed_step)), Literal(": ")),
                       error_details)
    IN  IF client # "ok"
        THEN \* _get_blob_client raises: the exception leaves the handler
             /\ escaped' = "HttpResponseError"
             /\ UNCHANGED <<calls, source, partial_results>>
        ELSE IF upload # "ok"
        THEN /\ calls' = Append(calls, Call("upload_blob", PName(result_filename), FALSE))
             /\ UNCHANGED <<source, partial_results, escaped>>
        ELSE /\ partial_results' =
                   Uploaded(partial_results, result_filename,
                            IntermediateData(failed_step, error_details))
             /\ calls' = Append(calls, Call("upload_blob", PName(result_filename), TRUE))
                           \o StatusCalls(message, status) \o << DeleteCall(deletion) >>
             /\ source' = SourceAfterDelete(deletion)
             /\ escaped' = EscapedAfterDelete(deletion)

\* Lines 468-487: the first except clause
EarlyHandler ==
    /\ pc = "early_handler"
    /\ \E status \in RestOutcomes, deletion \in BlobOutcomes, text \in ExceptionTexts :
         IF loc.blob_service_client
         THEN _handle_processing_error(ErrorDetails(exc, text), status, deletion)
         ELSE UNCHANGED <<calls, source, partial_results, escaped>>
    /\ pc' = "finally"
    /\ UNCHANGED <<blob_name, run, loc, exc, error_area>>
    /\ UNCHANGED units

\* Mutant: the failed step is never classified
FailedStep_Unclassified(c) == "UnknownPostOpenAI"

\* Lines 493-500
FailedStep(c) ==
    IF IsInstance(c, {"JSONValidationError", "TypeError", "ValueError"})
    THEN "ValidationOrCalculation"
    ELSE IF IsInstance(c, {"APIError", "AuthenticationError"})
    THEN "FinalAPISaveOrUpdate"
    ELSE "UnknownPostOpenAI"

\* Mutant: the data at hand is not looked at
IntermediateAvailable_NotLookedAt == FALSE

\* Lines 506, 537
IntermediateAvailable ==
    /\ loc.blob_service_client
    /\ Truthy(loc.analysis_result_str)
    /\ Truthy(loc.resumen_data)
    /\ Truthy(loc.extracted_text)

\* Lines 491-528: the second except clause
LateHandler ==
    /\ pc = "late_handler"
    /\ \E client \in BlobOutcomes, upload \in BlobOutcomes,
          status \in RestOutcomes, deletion \in BlobOutcomes, text \in ExceptionTexts :
         IF IntermediateAvailable
         THEN _save_intermediate_result_and_cleanup(
                  FailedStep(exc), ErrorDetails(exc, text), client, upload, status, deletion)
         ELSE /\ calls' = calls \o StatusCalls(
                     Cat(Cat(Cat(Literal("Error en "), Literal(FailedStep(exc))),
                             Literal(" (Intermedio NO guardado): ")),
                         ErrorDetails(exc, text)), status)
              /\ UNCHANGED <<source, partial_results, escaped>>
    /\ pc' = "finally"
    /\ UNCHANGED <<blob_name, run, loc, exc, error_area>>
    /\ UNCHANGED units

\* Lines 532-565: the last except clause
UnexpectedHandler ==
    /\ pc = "unexpected_handler"
    /\ \E client \in BlobOutcomes, upload \in BlobOutcomes,
          status \in RestOutcomes, deletion \in BlobOutcomes, text \in ExceptionTexts :
         LET error_details ==
                 Cat(Cat(Cat(Literal("UnexpectedError: "), Literal(exc)), Literal(" - ")), text)
         IN  IF IntermediateAvailable
             THEN _save_intermediate_result_and_cleanup(
                      "Unexpected", error_details, client, upload, status, deletion)
             ELSE IF loc.blob_service_client
             THEN _handle_processing_error(error_details, status, deletion)
             ELSE UNCHANGED <<calls, source, partial_results, escaped>>
    /\ pc' = "finally"
    /\ UNCHANGED <<blob_name, run, loc, exc, error_area>>
    /\ UNCHANGED units

\* Lines 568-589: the finally clause
\* Mutant: after the finally clause the function starts over
Finally_Reenter ==
    /\ pc = "finally"
    /\ pc' = "start"
    /\ UNCHANGED <<blob_name, run, loc, exc, escaped, source, partial_results, error_area, calls>>
    /\ UNCHANGED units

Finally ==
    /\ pc = "finally"
    /\ \E deletion \in BlobOutcomes :
         IF loc.processed_successfully /\ loc.blob_service_client
         THEN /\ calls' = Append(calls, DeleteCall(deletion))
              /\ source' = SourceAfterDelete(deletion)
              /\ escaped' = EscapedAfterDelete(deletion)
         ELSE UNCHANGED <<calls, source, escaped>>
    /\ pc' = "done"
    /\ UNCHANGED <<blob_name, run, loc, exc, partial_results, error_area>>
    /\ UNCHANGED units

(***************************************************************************)
(* Specifications                                                          *)
(***************************************************************************)
Next ==
    \/ Trigger
    \/ Start
    \/ ExtractIds
    \/ InitAdapters
    \/ GetResumen
    \/ AnalyzeCv
    \/ GetCompletion
    \/ ValidateJson
    \/ CalculateAverage
    \/ EarlyHandler
    \/ LateHandler
    \/ UnexpectedHandler
    \/ Finally

Spec == Init /\ [][Next]_vars


\* Lines 436-465 entered with the locals that lines 341-433 leave when the
\* validation and the average both pass on a score map {A:100, B:75, C:30}
LocalsAtPublish ==
    LET parsed == json_loads(TextDictScores).val
    IN  [ file_name |-> <<"r1", "_", "c1", ".", "pdf">>,
          rank_id |-> <<"r1">>,
          candidate_id |-> <<"c1">>,
          blob_service_client |-> TRUE,
          doc_intel_adapter |-> TRUE,
          openai_adapter |-> TRUE,
          openai_deployment |-> TRUE,
          rest_api_adapter |-> TRUE,
          resumen_data |-> ResumenFull,
          extracted_text |-> PStr("Ana Perez. Ingeniera. 5 anios de experiencia"),
          analysis_result_str |-> PStr(TextDictScores),
          cv_score |-> DictGet(parsed, "cvScore"),
          cv_analysis |-> DictGet(parsed, "cvAnalysis"),
          candidate_name |-> DictGet(parsed, "nameCandidate"),
          promedio_scores |-> calculate_average_score_from_dict(DictGet(parsed, "cvScore")),
          processed_successfully |-> FALSE ]

InitAtPublish ==
    /\ blob_name = <<"candidates", "/", "r1", "_", "c1", ".", "pdf">>
    /\ run = 1
    /\ pc = "add_scores"
    /\ loc = LocalsAtPublish
    /\ exc = "none"
    /\ escaped = "none"
    /\ source = TRUE
    /\ partial_results = {}
    /\ error_area = {}
    /\ calls = << CallReturning("get_resumen", PName(<<"r1">>), ResumenFull),
                  CallReturning("analyze_cv", None, LocalsAtPublish.extracted_text),
                  AdapterCall("get_completion", LocalsAtPublish.extracted_text, TRUE,
                              LocalsAtPublish.analysis_result_str, <<"content">>) >>
    /\ UnitsIdle

InitPublish == Init \/ InitAtPublish

NextPublish ==
    \/ Next
    \/ AddScores
    \/ SaveResumen
    \/ UpdateCandidateSuccess

\* The whole function, with the publish steps made reachable
SpecPublish == InitPublish /\ [][NextPublish]_vars


(***************************************************************************)
(* Vocabulary of the properties: what the current run has done so far      *)
(***************************************************************************)
Done == pc = "done"
Failed == exc # "none"

CallIdx(op) == {i \in DOMAIN calls : calls[i].op = op}
OkIdx(op) == {i \in CallIdx(op) : calls[i].ok}

\* The completion call returned in this run
CompletionReturned == OkIdx("get_completion") # {}
\* The text it returned
CompletionText == calls[CHOOSE i \in OkIdx("get_completion") : TRUE].ret

\* update_candidate calls carrying an error message, and the success report
ErrorStatusIdx == {i \in CallIdx("update_candidate") : calls[i].arg # None}
SuccessStatusIdx == {i \in CallIdx("update_candidate") : calls[i].arg = None}

\* The partial record was uploaded, the item was removed from the intake
PartialWrittenIdx == OkIdx("upload_blob")
SourceDeletedIdx == OkIdx("delete_blob")

\* The record this run leaves under the key (rank_id, candidate_id, step)
RecordAt(step) ==
    {b \in partial_results :
        b.name = ResultFilename(loc.rank_id, loc.candidate_id, step)}

\* A required field is missing from an otherwise valid JSON object
MissingFieldTexts == { TextNoScore, TextNoAnalysis, TextNoName }


(***************************************************************************)
(* C1 - happy path.  When the context lookup returns both fields, the OCR  *)
(* returns text and the completion returns the JSON the system prompt asks *)
(* for (cvScore an object {A:100, B:75, C:30}), the finished run has       *)
(* called add_scores, save_resumen and update_candidate(None) once each in *)
(* that order, has deleted the item, and has produced no partial record    *)
(* and no error status.                                                    *)
(***************************************************************************)
C1_HappyPathReachesSuccess ==
    (Done /\ CompletionReturned /\ CompletionText = PStr(TextDictScores))
        => /\ loc.processed_successfully
           /\ Cardinality(CallIdx("add_scores")) = 1
           /\ Cardinality(CallIdx("save_resumen")) = 1
           /\ Cardinality(SuccessStatusIdx) = 1
           /\ \A a \in CallIdx("add_scores"), b \in CallIdx("save_resumen"),
                 c \in SuccessStatusIdx, d \in SourceDeletedIdx :
                 a < b /\ b < c /\ c < d
           /\ SourceDeletedIdx # {}
           /\ CallIdx("upload_blob") = {}
           /\ ErrorStatusIdx = {}

(***************************************************************************)
(* C2 - early-failure disposition.  When a run fails at the context lookup *)
(* or at the OCR, before the completion call has returned, the finished    *)
(* run has left the item's content in the error area and the item is no    *)
(* longer in the intake container.                                         *)
(***************************************************************************)
C2_EarlyFailureMovesToErrorArea ==
    (Done /\ Failed /\ CallIdx("get_resumen") # {} /\ CallIdx("get_completion") = {})
        => (loc.file_name \in error_area /\ ~source)


(***************************************************************************)
(* C3 - late failure on a rejected output.  When the completion returns a  *)
(* JSON object that lacks cvScore, cvAnalysis or nameCandidate, the        *)
(* finished run has written the partial record keyed by (rank_id,          *)
(* candidate_id, failed step) with the raw completion text, the context    *)
(* result and the extracted text, then reported an error status, then      *)
(* deleted the item, and has never called add_scores or save_resumen.      *)
(***************************************************************************)
C3_RecordHoldsRunData ==
    \E b \in RecordAt("ValidationOrCalculation") :
        /\ b.data.azure_openai_raw_result = CompletionText
        /\ b.data.get_resumen_result = calls[CHOOSE i \in OkIdx("get_resumen") : TRUE].ret
        /\ b.data.document_intelligence_transcription =
               calls[CHOOSE i \in OkIdx("analyze_cv") : TRUE].ret

C3_MissingFieldCase ==
    Done /\ CompletionReturned /\ CompletionText.v \in MissingFieldTexts

C4_PublishFailed ==
    \E i \in CallIdx("add_scores") \cup CallIdx("save_resumen") \cup SuccessStatusIdx :
        ~calls[i].ok

C5_ValidationFailureIsLateFailure ==
    (Done /\ CompletionReturned /\ Failed /\ CallIdx("add_scores") = {})
        => \A d \in SourceDeletedIdx : \E u \in PartialWrittenIdx : u < d

(***************************************************************************)
(* C6 - no failure after the completion returned ends with the item still  *)
(* in the intake container and no error status sent.                       *)
(***************************************************************************)
C6_LateFailureNeverSilent ==
    (Done /\ CompletionReturned /\ Failed) => ~(source /\ ErrorStatusIdx = {})

(***************************************************************************)
(* C7 - no item is silently lost.  The item is deleted from the intake     *)
(* container only in a run in which a status update was accepted or a      *)
(* partial record was written.                                             *)
(***************************************************************************)
C7_DeletionOnlyWithReportOrRecord ==
    (Done /\ SourceDeletedIdx # {})
        => (OkIdx("update_candidate") # {} \/ PartialWrittenIdx # {})

(***************************************************************************)
(* C8 - identification failure.  For an accepted item whose name yields an *)
(* empty rank_id or candidate_id the finished run has moved the item out   *)
(* of the intake container (not deleted it, not left it) and has made no   *)
(* context-lookup, OCR, completion or publish call.                        *)
(***************************************************************************)
C8_IdentificationFailureMovesItem ==
    (Done /\ loc.file_name # <<>> /\ (loc.rank_id = <<>> \/ loc.candidate_id = <<>>))
        => /\ ~source
           /\ loc.file_name \in error_area
           /\ SourceDeletedIdx = {}
           /\ \A i \in DOMAIN calls :
                 calls[i].op \notin {"get_resumen", "analyze_cv", "get_completion",
                                     "add_scores", "save_resumen", "update_candidate"}

(***************************************************************************)
(* C9 - an early failure with candidate_id known and the REST adapter      *)
(* built calls update_candidate exactly once, with an error message, and   *)
(* writes no partial record.                                               *)
(***************************************************************************)
C9_EarlyFailureCase ==
    /\ Done
    /\ Failed
    /\ ~CompletionReturned
    /\ loc.candidate_id # <<>>
    /\ loc.rest_api_adapter

C9_EarlyFailureReportsOnce ==
    C9_EarlyFailureCase
        => /\ Cardinality(CallIdx("update_candidate")) = 1
           /\ ErrorStatusIdx = CallIdx("update_candidate")
           /\ CallIdx("upload_blob") = {}
           /\ run = 1 => partial_results = {}

C9_Witness ==
    /\ C9_EarlyFailureCase
    /\ exc = "NoContentExtractedError"
    /\ Cardinality(ErrorStatusIdx) = 1

(***************************************************************************)
(* C10 - once the completion call has returned, a partial record holding   *)
(* the raw completion text exists before validation, scoring or publish is *)
(* attempted.                                                              *)
(***************************************************************************)
C10_RawResultSavedBeforeNextStep ==
    pc \in {"validate", "average", "add_scores", "save_resumen", "update_candidate"}
        => \E b \in partial_results :
              /\ b.data.rank_id = loc.rank_id
              /\ b.data.candidate_id = loc.candidate_id
              /\ b.data.azure_openai_raw_result = loc.analysis_result_str

(***************************************************************************)
(* C10 as amended.  Once the completion call has returned, its text is     *)
(* held unchanged in analysis_result_str for the rest of the run; no       *)
(* partial record is written before validation and scoring are attempted;  *)
(* a partial record is written only after a later step has failed, and it  *)
(* then holds that text unmodified.                                        *)
(***************************************************************************)
C10_RawResultHeldAndSavedOnFailure ==
    CompletionReturned
        => /\ loc.analysis_result_str = CompletionText
           /\ pc \in {"validate", "average"} => CallIdx("upload_blob") = {}
           /\ \A u \in PartialWrittenIdx :
                 /\ Failed
                 /\ \A c \in OkIdx("get_completion") : c < u
                 /\ \E b \in partial_results :
                       /\ b.name = calls[u].arg.v
                       /\ b.data.azure_openai_raw_result = CompletionText

C10_Witness ==
    /\ Done
    /\ CompletionReturned
    /\ PartialWrittenIdx # {}
    /\ \E b \in partial_results : b.data.azure_openai_raw_result = CompletionText


(***************************************************************************)
(* The validator on its own: extract_and_validate_cv_data_from_json is     *)
(* applied to the value json.loads yields for a payload                    *)
(***************************************************************************)
\* Longest cvScore list
MaxItems == 2

\* A key the payload does not carry
Absent == [t |-> "absent", v |-> 0]
Field(key, x) == IF x = Absent THEN <<>> ELSE (key :> x)
Payload(score, analysis, name) ==
    PDict(Field("cvScore", score) @@ Field("cvAnalysis", analysis)
            @@ Field("nameCandidate", name))
WithKey(d, key, x) ==
    PDict(Field(key, x) @@ [k \in DOMAIN d.v \ {key} |-> d.v[k]])

\* Items of a cvScore list: the valid ones, and one for each rejection
ValidEntries == { ScoreItem(l, r) : l \in {"A", "Z"}, r \in {0, 100} }
InvalidEntries ==
    { ScoreItem("B", 101), ScoreItem("B", -1), ScoreItem("b", 50), ScoreItem("AB", 50),
      PDict([Letter |-> PStr("A"), Result |-> PBool(TRUE)]),
      PDict([Letter |-> PStr("A"), Result |-> PStr("50")]),
      PDict([Letter |-> PInt(1), Result |-> PInt(50)]),
      PDict([Letter |-> PStr("A")]),
      PInt(5) }
ScoreLists ==
    { PList(q) : q \in UNION { [1..n -> ValidEntries \cup InvalidEntries] : n \in 0..MaxItems } }

\* cvScore as the object the system prompt asks for
ScoreMaps ==
    { PDict(f) : f \in UNION { [ks -> {PInt(0), PInt(75), PInt(100)}] :
                                  ks \in SUBSET {"A", "B", "C"} } }

ScoreInputs == ScoreLists \cup ScoreMaps \cup { Absent, None }
AnalysisInputs == { Absent, None, PStr("ok"), PInt(5) }
NameInputs == { Absent, PStr("Ana"), PInt(5) }

\* What json.loads can hand to the validator
ValidatorInputs ==
    { Payload(sc, a, n) : sc \in ScoreInputs, a \in AnalysisInputs, n \in NameInputs }
        \cup { PList(<<PInt(1)>>), PStr("ok"), PInt(7) }

InitValidator ==
    /\ PipelineOff
    /\ extractor = Off
    /\ embedder = Off
    /\ indexer = Off
    /\ validator \in { [pc |-> "call", parsed_data |-> x, result |-> None] :
                          x \in ValidatorInputs }
    /\ scorer = Off
    /\ ocr = Off
    /\ openai = Off
    /\ creds = Off

\* Lines 42-116
Validate ==
    /\ validator.pc = "call"
    /\ validator' = [validator EXCEPT !.pc = "returned",
                                      !.result = validate_parsed(validator.parsed_data)]
    /\ UNCHANGED <<pipeline, extractor, embedder, indexer, scorer, ocr, openai, creds>>

NextValidator == Validate

SpecValidator == InitValidator /\ [][NextValidator]_vars

\* The validator returned (it did not raise) on an object payload
ValidatorReturned == validator.pc = "returned" /\ validator.result.exc = "none"
RawScore == DictGet(validator.parsed_data, "cvScore")

(***************************************************************************)
(* C11 - validator round trip.  For a payload whose cvScore is a map in    *)
(* which every key is a single uppercase letter and every value an integer *)
(* in 0..100, the validator returns that map unchanged as its first        *)
(* result.                                                                 *)
(***************************************************************************)
C11_ValidMap(m) ==
    /\ m.t = "dict"
    /\ \A k \in DOMAIN m.v :
          /\ k \in VALID_LETTERS
          /\ m.v[k].t = "int"
          /\ 0 <= m.v[k].v /\ m.v[k].v <= 100

C11_ValidatorRoundTrip ==
    (ValidatorReturned /\ C11_ValidMap(RawScore))
        => validator.result.val[1] = RawScore

(***************************************************************************)
(* C12 - all-or-nothing scores.  When the validator returns a score        *)
(* collection, it is the whole cvScore list and every entry of it is       *)
(* valid; a list with one invalid entry yields None, never the valid       *)
(* subset.                                                                 *)
(***************************************************************************)
C12_EntryOk(item) ==
    /\ item.t = "dict"
    /\ {"Letter", "Result"} \subseteq DOMAIN item.v
    /\ item.v["Letter"].t = "str"
    /\ item.v["Letter"].v \in VALID_LETTERS
    /\ item.v["Result"].t = "int"
    /\ 0 <= item.v["Result"].v /\ item.v["Result"].v <= 100

C12_HasInvalidEntry ==
    /\ RawScore.t = "list"
    /\ \E i \in DOMAIN RawScore.v : ~C12_EntryOk(RawScore.v[i])

C12_AllOrNothing ==
    ValidatorReturned
        => /\ C12_HasInvalidEntry => validator.result.val[1] = None
           /\ validator.result.val[1] # None
                 => /\ validator.result.val[1] = RawScore
                    /\ RawScore.t = "list"
                    /\ \A i \in DOMAIN RawScore.v : C12_EntryOk(RawScore.v[i])

C12_Witness ==
    /\ ValidatorReturned
    /\ RawScore.t = "list"
    /\ Len(RawScore.v) = 2
    /\ C12_EntryOk(RawScore.v[1])
    /\ ~C12_EntryOk(RawScore.v[2])
    /\ validator.result.val[1] = None

(***************************************************************************)
(* C13 - asymmetric strictness.  cvAnalysis and nameCandidate are each     *)
(* returned as given when a string and as None otherwise; replacing either *)
(* of them leaves the returned score result as it is, and replacing        *)
(* cvScore leaves the returned analysis and name as they are.              *)
(***************************************************************************)
C13_OtherScores ==
    { Absent, PList(<<ScoreItem("A", 100)>>), PList(<<ScoreItem("B", 101)>>),
      PDict([A |-> PInt(100)]), PInt(3) }

InitOcr ==
    /\ PipelineOff
    /\ extractor = Off
    /\ embedder = Off
    /\ indexer = Off
    /\ validator = Off
    /\ scorer = Off
    /\ ocr \in { [pc |-> "loop", client_script |-> q, client_calls |-> 0, retries |-> 0,
                  slept |-> <<>>, returned |-> None, raised |-> "none"] :
                    q \in [1..max_retries -> ClientOutcomes] }
    /\ openai = Off
    /\ creds = Off

\* Mutant: the wrapper retries whatever the decorated function raises
AnalyzeCvAttempt_RetryAll ==
    /\ ocr.pc = "loop"
    /\ ocr.retries < max_retries
    /\ LET outcome == ocr.client_script[ocr.client_calls + 1]
           e == analyze_cv_raises(outcome)
           called == [ocr EXCEPT !.client_calls = @ + 1]
           retries == ocr.retries + 1
           wait_time == retry_delay * Pow2(retries - 1)
       IN  ocr' =
             IF e = "none"
             THEN [called EXCEPT !.pc = "done", !.returned = PStr("texto del CV")]
             ELSE IF retries < max_retries
             THEN [called EXCEPT !.retries = retries, !.slept = Append(@, wait_time)]
             ELSE [called EXCEPT !.retries = retries, !.pc = "done",
                                 !.raised = "DocumentIntelligenceError"]
    /\ UNCHANGED <<pipeline, extractor, embedder, indexer, validator, scorer, openai, creds>>

\* Lines 43-114: one pass of the while loop of the wrapper
AnalyzeCvAttempt ==
    /\ ocr.pc = "loop"
    /\ ocr.retries < max_retries
    /\ LET outcome == ocr.client_script[ocr.client_calls + 1]
           e == analyze_cv_raises(outcome)
           called == [ocr EXCEPT !.client_calls = @ + 1]
           retries == ocr.retries + 1
           wait_time == retry_delay * Pow2(retries - 1)
           again == [called EXCEPT !.retries = retries, !.slept = Append(@, wait_time)]
           gave_up == [called EXCEPT !.retries = retries, !.pc = "done",
                                     !.raised = "DocumentIntelligenceError"]
       IN  ocr' =
             IF e = "none"
             THEN [called EXCEPT !.pc = "done", !.returned = PStr("texto del CV")]
             ELSE IF IsInstance(e, {"ServiceRequestError"})
             THEN IF retries < max_retries THEN again ELSE gave_up
             ELSE IF IsInstance(e, {"HttpResponseError"})
             THEN IF retries < max_retries THEN again ELSE gave_up
             ELSE IF IsInstance(e, {"ClientAuthenticationError"})
             THEN [called EXCEPT !.pc = "done", !.raised = "DocumentIntelligenceError"]
             ELSE IF IsInstance(e, {"NoContentExtractedError"})
             THEN [called EXCEPT !.pc = "done", !.raised = e]
             ELSE [called EXCEPT !.pc = "done", !.raised = "DocumentIntelligenceError"]
    /\ UNCHANGED <<pipeline, extractor, embedder, indexer, validator, scorer, openai, creds>>

NextOcr == AnalyzeCvAttempt

SpecOcr == InitOcr /\ [][NextOcr]_vars

\* The client fails transiently on its first n - 1 calls and succeeds on the n-th
TransientThenContent(script, n) ==
    /\ \A i \in 1..(n - 1) : script[i] \in TransientOutcomes
    /\ script[n] = "content"

(***************************************************************************)
(* C14 - OCR stage retry.  When the client fails transiently on its first  *)
(* N-1 calls and succeeds on the N-th (N <= max_retries), analyze_cv       *)
(* returns the text after exactly N client calls; when every call fails    *)
(* transiently it raises DocumentIntelligenceError after exactly           *)
(* max_retries client calls.                                               *)
(***************************************************************************)
C14_OcrRetriesTransientFailures ==
    ocr.pc = "done"
        => /\ \A n \in 1..max_retries :
                 TransientThenContent(ocr.client_script, n)
                    => /\ ocr.returned # None
                       /\ ocr.raised = "none"
                       /\ ocr.client_calls = n
           /\ (\A i \in 1..max_retries : ocr.client_script[i] \in TransientOutcomes)
                 => /\ ocr.raised = "DocumentIntelligenceError"
                    /\ ocr.client_calls = max_retries

(***************************************************************************)
(* AzureOpenAIAdapter.get_completion on its own: _create_completion and    *)
(* the loop of _retry_on_rate_limit around it                              *)
(***************************************************************************)
InitOpenai ==
    /\ PipelineOff
    /\ extractor = Off
    /\ embedder = Off
    /\ indexer = Off
    /\ validator = Off
    /\ scorer = Off
    /\ ocr = Off
    /\ openai \in { [pc |-> "loop", client_script |-> q, client_calls |-> 0, retries |-> 0,
                     slept |-> <<>>, returned |-> None, raised |-> "none"] :
                       q \in [1..rate_limit_max_retries -> CompletionOutcomes] }
    /\ creds = Off

\* Lines 91-121: one pass of the while loop of the wrapper
GetCompletionAttempt ==
    /\ openai.pc = "loop"
    /\ openai.retries < rate_limit_max_retries
    /\ LET outcome == openai.client_script[openai.client_calls + 1]
           e == _create_completion_raises(outcome)
           called == [openai EXCEPT !.client_calls = @ + 1]
           retries == openai.retries + 1
           wait_time == rate_limit_retry_delay * Pow2(retries - 1)
           failed == [called EXCEPT !.pc = "done", !.raised = "OpenAIError"]
       IN  openai' =
             IF e = "none"
             THEN [called EXCEPT !.pc = "done", !.returned = PStr(TextListScores)]
             ELSE IF IsInstance(e, {"RateLimitError"})
             THEN IF retries < rate_limit_max_retries
                  THEN [called EXCEPT !.retries = retries, !.slept = Append(@, wait_time)]
                  ELSE [failed EXCEPT !.retries = retries]
             ELSE failed
    /\ UNCHANGED <<pipeline, extractor, embedder, indexer, validator, scorer, ocr, creds>>

NextOpenai == GetCompletionAttempt

SpecOpenai == InitOpenai /\ [][NextOpenai]_vars

(***************************************************************************)
(* C15 - completion stage retry on throttling.  When the client raises     *)
(* RateLimitError on its first N-1 calls and succeeds on the N-th          *)
(* (N <= 3), get_completion returns the text after exactly N client calls; *)
(* a client error that is not a rate limit ends the call after exactly one *)
(* client call with OpenAIError.                                           *)
(***************************************************************************)
C15_CompletionRetriesOnRateLimit ==
    openai.pc = "done"
        => /\ \A n \in 1..rate_limit_max_retries :
                 (/\ \A i \in 1..(n - 1) : openai.client_script[i] = "RateLimitError"
                  /\ openai.client_script[n] = "content")
                    => /\ openai.returned # None
                       /\ openai.raised = "none"
                       /\ openai.client_calls = n
           /\ openai.client_script[1] \in {"APIConnectionError", "APIStatusError", "TimeoutError"}
                 => /\ openai.raised = "OpenAIError"
                    /\ openai.client_calls = 1

(***************************************************************************)
(* RestApiAdapter.get_credentials and ApiCredentials.is_valid.  Every      *)
(* invocation of process_candidate_cv builds its own RestApiAdapter        *)
(* (function_app.py line 370); time is in seconds.                         *)
(***************************************************************************)
TOKEN_EXPIRATION_SECONDS == 1200
margin_seconds == 60

\* Two invocations run side by side; get_credentials calls of each, and the
\* clock: it advances TickSeconds at a time, MaxTicks times
MaxCalls == 2
MaxTicks == 5
TickSeconds == TOKEN_EXPIRATION_SECONDS \div 4
Invocations == {1, 2}

\* self._credentials is None
NoCredentials == [present |-> FALSE, token |-> 0, expires_in |-> 0]
\* ApiCredentials(token=token, expires_in=TOKEN_EXPIRATION_SECONDS)
ApiCredentials(token, expires_in) == [present |-> TRUE, token |-> token, expires_in |-> expires_in]

\* Mutant: the cached credentials are never taken as valid
is_valid_Never(credentials, now) == FALSE

\* api_credentials.py lines 11-20; a token is a positive number, 0 the empty one
is_valid(credentials, now) ==
    IF credentials.token = 0 THEN FALSE
    ELSE LET expiration_time == now + credentials.expires_in
         IN  now + margin_seconds < expiration_time

InitCreds ==
    /\ PipelineOff
    /\ extractor = Off
    /\ embedder = Off
    /\ indexer = Off
    /\ validator = Off
    /\ scorer = Off
    /\ ocr = Off
    /\ openai = Off
    /\ creds = [ pc |-> "on",
                 now |-> 0,
                 adapters |-> [i \in Invocations |->
                                 [credentials |-> NoCredentials, at |-> "idle", started |-> 0]],
                 login_calls |-> <<>>,
                 returned |-> <<>> ]

\* Line 78: get_credentials is entered and the cached credentials are tested
GetCredentials(i) ==
    /\ creds.pc = "on"
    /\ creds.adapters[i].at = "idle"
    /\ creds.adapters[i].started < MaxCalls
    /\ LET a == creds.adapters[i]
       IN  IF ~a.credentials.present \/ ~is_valid(a.credentials, creds.now)
           THEN creds' = [creds EXCEPT !.adapters[i].at = "authenticate",
                                       !.adapters[i].started = @ + 1]
           ELSE creds' = [creds EXCEPT
                            !.adapters[i].started = @ + 1,
                            !.returned = Append(@, [by |-> i, at |-> creds.now,
                                                    token |-> a.credentials.token])]
    /\ UNCHANGED <<pipeline, extractor, embedder, indexer, validator, scorer, ocr, openai>>

\* Lines 46-74 and 80-82: the login request, the assignment and the return
Authenticate(i) ==
    /\ creds.pc = "on"
    /\ creds.adapters[i].at = "authenticate"
    /\ \E accepted \in BOOLEAN :
         LET token == Len(creds.login_calls) + 1
             call == [by |-> i, at |-> creds.now, ok |-> accepted, token |-> token]
         IN  IF accepted
             THEN creds' = [creds EXCEPT
                              !.login_calls = Append(@, call),
                              !.adapters[i].credentials =
                                  ApiCredentials(token, TOKEN_EXPIRATION_SECONDS),
                              !.adapters[i].at = "idle",
                              !.returned = Append(@, [by |-> i, at |-> creds.now,
                                                      token |-> token])]
             ELSE \* AuthenticationError leaves get_credentials
                  creds' = [creds EXCEPT !.login_calls = Append(@, call),
                                         !.adapters[i].at = "idle"]
    /\ UNCHANGED <<pipeline, extractor, embedder, indexer, validator, scorer, ocr, openai>>

\* Time passes
Tick ==
    /\ creds.pc = "on"
    /\ creds.now < MaxTicks * TickSeconds
    /\ creds' = [creds EXCEPT !.now = @ + TickSeconds]
    /\ UNCHANGED <<pipeline, extractor, embedder, indexer, validator, scorer, ocr, openai>>

NextCreds ==
    \/ \E i \in Invocations : GetCredentials(i)
    \/ \E i \in Invocations : Authenticate(i)
    \/ Tick

SpecCreds == InitCreds /\ [][NextCreds]_vars

\* The accepted login calls of adapter i, and the time the login endpoint
\* issued a token
LoginsOf(i) == {k \in DOMAIN creds.login_calls :
                   creds.login_calls[k].by = i /\ creds.login_calls[k].ok}
IssuedAt(token) == creds.login_calls[token].at
ReturnsOf(i) == {k \in DOMAIN creds.returned : creds.returned[k].by = i}

(***************************************************************************)
(* C16 - credential expiry.  get_credentials never returns a token whose   *)
(* expiry (issue time + TTL) is within the safety margin of now: a call    *)
(* made after the cached token has expired re-authenticates and returns    *)
(* the new token.                                                          *)
(***************************************************************************)
C16_ExpiredTokenIsRefreshed ==
    creds.pc = "on"
        => \A k \in DOMAIN creds.returned :
              creds.returned[k].at + margin_seconds
                  < IssuedAt(creds.returned[k].token) + TOKEN_EXPIRATION_SECONDS

(***************************************************************************)
(* C17 - credential caching.  On one adapter, as long as now is within TTL *)
(* minus the safety margin of its first accepted authentication, every     *)
(* get_credentials call has returned the token of that authentication and  *)
(* the adapter has made no other call to the login endpoint since.         *)
(***************************************************************************)
FirstLogin(i) == CHOOSE k \in LoginsOf(i) : \A j \in LoginsOf(i) : k <= j

C17_CachedTokenWithinTtl ==
    creds.pc = "on"
        => \A i \in Invocations :
              (/\ LoginsOf(i) # {}
               /\ creds.now + margin_seconds
                     < IssuedAt(FirstLogin(i)) + TOKEN_EXPIRATION_SECONDS)
                 => /\ \A k \in DOMAIN creds.login_calls :
                          (creds.login_calls[k].by = i /\ k # FirstLogin(i))
                              => k < FirstLogin(i)
                    /\ creds.adapters[i].at = "idle"
                    /\ \A k \in ReturnsOf(i) : creds.returned[k].token = FirstLogin(i)

C17_Witness ==
    /\ creds.pc = "on"
    /\ \E i \in Invocations :
          /\ Cardinality(LoginsOf(i)) = 1
          /\ Cardinality(ReturnsOf(i)) = 2
          /\ \A k \in ReturnsOf(i) : creds.returned[k].token = FirstLogin(i)
          /\ \E k \in ReturnsOf(i) : creds.returned[k].at > IssuedAt(FirstLogin(i))
          /\ creds.now + margin_seconds < IssuedAt(FirstLogin(i)) + TOKEN_EXPIRATION_SECONDS

(***************************************************************************)
(* C18 - credential refresh is serialized.  At most one invocation is      *)
(* authenticating at a time, a new authentication is accepted only when    *)
(* the token of the previous one has expired, and invocations that obtain  *)
(* a token at the same instant obtain the same token.                      *)
(***************************************************************************)
C18_RefreshIsSerialized ==
    creds.pc = "on"
        => /\ Cardinality({i \in Invocations : creds.adapters[i].at = "authenticate"}) <= 1
           /\ \A j, k \in DOMAIN creds.login_calls :
                 (j < k /\ creds.login_calls[j].ok /\ creds.login_calls[k].ok)
                    => creds.login_calls[k].at + margin_seconds
                          >= IssuedAt(j) + TOKEN_EXPIRATION_SECONDS
           /\ \A j, k \in DOMAIN creds.returned :
                 creds.returned[j].at = creds.returned[k].at
                    => creds.returned[j].token = creds.returned[k].token

(***************************************************************************)
(* calculate_average_score_from_dict on its own                            *)
(***************************************************************************)
\* Criteria of a score map, and calls made on the same map
MaxCriteria == 3
MaxRepeats == 2

CriteriaLetters == { <<"A", "B", "C", "D", "E">>[i] : i \in 1..MaxCriteria }
InsertionOrders(S) ==
    { q \in [1..Cardinality(S) -> S] : \A i, j \in DOMAIN q : q[i] = q[j] => i = j }

\* Score maps a validation could hand over, and the arguments without a mean
ScorerMaps ==
    { PDict(f) : f \in UNION { [ks -> {PInt(0), PInt(50), PInt(75), PInt(100)}] :
                                 ks \in SUBSET CriteriaLetters } }
ScorerOthers ==
    { None, PList(<<>>), PList(<<ScoreItem("A", 100), ScoreItem("B", 50)>>), PStr("A"), PInt(0) }

InitScorer ==
    /\ PipelineOff
    /\ extractor = Off
    /\ embedder = Off
    /\ indexer = Off
    /\ validator = Off
    /\ scorer \in
         { [pc |-> "call", cv_scores_dict |-> d, given |-> d, order |-> o, results |-> <<>>] :
             d \in ScorerOthers, o \in {<<>>} }
         \cup UNION { { [pc |-> "call", cv_scores_dict |-> d, given |-> d, order |-> o,
                         results |-> <<>>] : o \in InsertionOrders(DOMAIN d.v) } :
                      d \in ScorerMaps }
    /\ ocr = Off
    /\ openai = Off
    /\ creds = Off

\* Lines 22-55: one call; the argument is left as it was
Calculate ==
    /\ scorer.pc \in {"call", "returned"}
    /\ Len(scorer.results) < MaxRepeats
    /\ scorer' = [scorer EXCEPT
                    !.pc = "returned",
                    !.results = Append(@, calculate_average_score_in_order(
                                              scorer.cv_scores_dict, scorer.order))]
    /\ UNCHANGED <<pipeline, extractor, embedder, indexer, validator, ocr, openai, creds>>

NextScorer == Calculate

SpecScorer == InitScorer /\ [][NextScorer]_vars

\* The scorer on its own, or inside process_candidate_cv
InitScoring == InitScorer \/ InitPublish
NextScoring == NextScorer \/ NextPublish
SpecScoring == InitScoring /\ [][NextScoring]_vars

\* The argument has no mean: it is None, not a mapping, or empty
NoMean(d) == d.t # "dict" \/ DOMAIN d.v = {}

(***************************************************************************)
(* C19 - the undefined average is explicit.  The scorer returns None for   *)
(* None, for a value that is not a mapping and for the empty map; in       *)
(* process_candidate_cv an undefined average ends the run with ValueError  *)
(* before any publish call, and save_resumen only ever receives the        *)
(* average computed from the validated scores.                             *)
(***************************************************************************)
C19_ValidationPassed ==
    loc.cv_score # None /\ loc.cv_analysis # None /\ loc.candidate_name # None

C19_UndefinedAverageIsExplicit ==
    /\ (scorer.pc = "returned" /\ NoMean(scorer.cv_scores_dict))
          => \A i \in DOMAIN scorer.results : scorer.results[i] = None
    /\ (pc \notin {"off", "average"} /\ C19_ValidationPassed
            /\ calculate_average_score_from_dict(loc.cv_score) = None)
          => /\ exc = "ValueError"
             /\ loc.promedio_scores = None
             /\ CallIdx("add_scores") = {}
             /\ CallIdx("save_resumen") = {}
    /\ pc # "off"
          => /\ CallIdx("add_scores") # {} => loc.promedio_scores.t = "float"
             /\ \A i \in CallIdx("save_resumen") :
                   /\ calls[i].arg.t = "float"
                   /\ calls[i].arg = calculate_average_score_from_dict(loc.cv_score)

C19_Witness ==
    /\ Done
    /\ C19_ValidationPassed
    /\ loc.cv_score.t = "list"
    /\ loc.promedio_scores = None
    /\ exc = "ValueError"
    /\ CallIdx("add_scores") = {}

(***************************************************************************)
(* C20 - scoring is a pure mean.  For a non-empty map of integers in       *)
(* 0..100 the scorer returns the hundredth nearest to sum/count            *)
(* ({A:100, B:50} gives 75.00), the result lies in 0..100, it is the same  *)
(* for every insertion order of the entries and for every repeated call,   *)
(* and the map is left as it was.                                          *)
(***************************************************************************)
RECURSIVE C20_Total(_, _)
C20_Total(f, keys) ==
    IF keys = {} THEN 0
    ELSE LET k == CHOOSE x \in keys : TRUE IN f[k].v + C20_Total(f, keys \ {k})

C20_Distance(a, b) == IF a >= b THEN a - b ELSE b - a

C20_ScoringIsPureMean ==
    (scorer.pc = "returned" /\ ~NoMean(scorer.cv_scores_dict))
        => LET d == scorer.cv_scores_dict
               count == Cardinality(DOMAIN d.v)
               total == C20_Total(d.v, DOMAIN d.v)
               first == scorer.results[1]
           IN  /\ first.t = "float"
               /\ 2 * C20_Distance(100 * total, first.v * count) <= count
               /\ 0 <= first.v /\ first.v <= 10000
               /\ \A o \in InsertionOrders(DOMAIN d.v) :
                     calculate_average_score_in_order(d, o) = first
               /\ \A i \in DOMAIN scorer.results : scorer.results[i] = first
               /\ d = scorer.given
               /\ d = PDict([A |-> PInt(100), B |-> PInt(50)]) => first = PFloat(7500)

C20_Witness ==
    /\ scorer.pc = "returned"
    /\ scorer.cv_scores_dict = PDict([A |-> PInt(100), B |-> PInt(50)])
    /\ scorer.order = <<"B", "A">>
    /\ scorer.results = << PFloat(7500), PFloat(7500) >>

(***************************************************************************)
(* get_id_rank and get_id_candidate on their own, applied to every string  *)
(* of at most MaxNameLen tokens                                            *)
(***************************************************************************)
MaxNameLen == 5

\* The separators and two pieces of separator-free text
NameTokens == { "/", "_", ".", "a", "b" }
FilePaths == UNION { [1..n -> NameTokens] : n \in 0..MaxNameLen }

\* Lines 15-17: path_sections[-1] raises IndexError on an empty list
IndexLastRaises(list) == IF Len(list) = 0 THEN "IndexError" ELSE "none"

InitExtractor ==
    /\ PipelineOff
    /\ validator = Off
    /\ scorer = Off
    /\ ocr = Off
    /\ openai = Off
    /\ creds = Off
    /\ extractor \in { [pc |-> "call", file_path |-> p, rank |-> <<>>, candidate |-> <<>>,
                        raised |-> "none"] : p \in FilePaths }
    /\ embedder = Off
    /\ indexer = Off

\* Lines 36-51: both functions are called on the same string
GetIds ==
    /\ extractor.pc = "call"
    /\ LET raised == IndexLastRaises(Split(extractor.file_path, "/"))
       IN  extractor' =
             IF raised # "none"
             THEN [extractor EXCEPT !.pc = "returned", !.raised = raised]
             ELSE [extractor EXCEPT !.pc = "returned",
                                    !.rank = get_id_rank(extractor.file_path),
                                    !.candidate = get_id_candidate(extractor.file_path)]
    /\ UNCHANGED <<pipeline, validator, scorer, ocr, openai, creds, embedder, indexer>>

NextExtractor == GetIds

SpecExtractor == InitExtractor /\ [][NextExtractor]_vars

\* tok does not occur in s
Without(s, tok) == \A i \in DOMAIN s : s[i] # tok

(***************************************************************************)
(* C21 - identifier extraction.  For every name <rank>_<candidate>.<ext>,  *)
(* alone or after a directory prefix, in which rank and candidate are      *)
(* non-empty and hold no underscore and no path separator and ext holds no *)
(* dot and no path separator, get_id_rank returns rank and                 *)
(* get_id_candidate returns candidate; for every string without an         *)
(* underscore get_id_candidate returns the empty string; neither function  *)
(* raises on any string.                                                   *)
(***************************************************************************)
C21_IdentifiersExtracted ==
    extractor.pc = "returned"
        => LET p == extractor.file_path
           IN  /\ extractor.raised = "none"
               /\ \A k \in 0..Len(p), i \in 1..Len(p), j \in 1..Len(p) :
                     LET rank == SubSeq(p, k + 1, i - 1)
                         candidate == SubSeq(p, i + 1, j - 1)
                         ext == SubSeq(p, j + 1, Len(p))
                     IN  (/\ k < i /\ i < j
                          /\ k > 0 => p[k] = "/"
                          /\ p[i] = "_" /\ p[j] = "."
                          /\ rank # <<>> /\ Without(rank, "_") /\ Without(rank, "/")
                          /\ candidate # <<>> /\ Without(candidate, "_")
                          /\ Without(candidate, "/")
                          /\ Without(ext, ".") /\ Without(ext, "/"))
                            => /\ extractor.rank = rank
                               /\ extractor.candidate = candidate
                               /\ extractor.rank # <<>>
                               /\ extractor.candidate # <<>>
               /\ Without(p, "_") => extractor.candidate = <<>>

C21_Witness ==
    /\ extractor.pc = "returned"
    /\ extractor.file_path = <<"a", "_", "b", ".", "a">>
    /\ extractor.rank = <<"a">>
    /\ extractor.candidate = <<"b">>
    /\ extractor.raised = "none"

(***************************************************************************)
(* EmbeddingGenerator.generate_embeddings on its own: the text splitter,   *)
(* _generate_embeddings_internal and the loop of                           *)
(* _retry_embeddings_on_error around it                                    *)
(***************************************************************************)
\* Defaults of _retry_embeddings_on_error
embedding_max_retries == 5
embedding_initial_delay == 5

\* Most chunks the splitter cuts a text into
MaxChunks == 2

\* How _split_text ends: a number of chunks, or an exception of the splitter
Returned(n) == [raises |-> "none", n |-> n]
Raised(e) == [raises |-> e, n |-> 0]
SplitOutcomes == { Returned(n) : n \in 0..MaxChunks } \cup { Raised("Exception") }
\* How one call of client.embeddings.create ends: a number of items in
\* response.data, or an exception
EmbeddingOutcomes ==
    { Returned(k) : k \in 0..(MaxChunks + 1) }
        \cup { Raised("RateLimitError"), Raised("APIConnectionError"), Raised("KeyError") }
\* e.retry_after, 0 when the exception carries none
RetryAfterValues == { 0, 7 }

\* The chunks of the text, and the vectors of a response with k items,
\* sorted by item.index
Chunks(n) == [i \in 1..n |-> [chunk |-> i]]
Embeddings(k) == [i \in 1..k |-> [embedding |-> i]]

\* Mutant: the counts are not compared
CheckedEmbeddings_Unchecked(embeddings, chunks) == << PList(embeddings), PList(chunks) >>

\* Lines 253-260
CheckedEmbeddings(embeddings, chunks) ==
    IF Len(embeddings) # Len(chunks)
    THEN << None, None >>
    ELSE << PList(embeddings), PList(chunks) >>

\* Mutant: the delay the provider suggests is not looked at
WaitTime_BackoffOnly(retry_after, delay) == delay

\* Line 59: getattr(e, "retry_after", delay)
WaitTime(retry_after, delay) == IF retry_after # 0 THEN retry_after ELSE delay

\* Lines 262-269: the two except clauses of generate_embeddings return alike
EmbeddingFailure(e) == << None, None >>

InitEmbedder ==
    /\ PipelineOff
    /\ validator = Off
    /\ scorer = Off
    /\ ocr = Off
    /\ openai = Off
    /\ creds = Off
    /\ extractor = Off
    /\ embedder \in { [pc |-> "call", text |-> t, split |-> sp, chunks |-> <<>>,
                       client_calls |-> 0, received |-> <<>>, retries |-> 0,
                       delay |-> embedding_initial_delay, slept |-> <<>>,
                       carried |-> <<>>,
                       raised |-> "none", result |-> << None, None >>] :
                         t \in {"", "Ana. Analista. Muy adecuada"}, sp \in SplitOutcomes }
    /\ indexer = Off

\* Lines 238-249: the entry of generate_embeddings up to the call of
\* _generate_embeddings_internal
SplitText ==
    /\ embedder.pc = "call"
    /\ embedder' =
         IF embedder.text = ""
         THEN [embedder EXCEPT !.pc = "done"]
         ELSE IF embedder.split.raises # "none"
         THEN [embedder EXCEPT !.pc = "done", !.raised = embedder.split.raises,
                               !.result = EmbeddingFailure(embedder.split.raises)]
         ELSE IF embedder.split.n = 0
         THEN [embedder EXCEPT !.pc = "done"]
         ELSE [embedder EXCEPT !.pc = "loop", !.chunks = Chunks(embedder.split.n)]
    /\ UNCHANGED <<pipeline, validator, scorer, ocr, openai, creds, extractor, indexer>>

\* Lines 53-91: one pass of the while loop of the wrapper around lines
\* 212-226, and lines 253-269 once the wrapper has returned or raised
EmbeddingsAttempt ==
    /\ embedder.pc = "loop"
    /\ embedder.retries < embedding_max_retries
    /\ \E outcome \in EmbeddingOutcomes, retry_after \in RetryAfterValues,
          constructed \in {"openai.APIError", "TypeError"} :
         LET called == [embedder EXCEPT !.client_calls = @ + 1]
             retries == embedder.retries + 1
             wait_time == WaitTime(retry_after, embedder.delay)
         IN  embedder' =
               IF outcome.raises = "none"
               THEN [called EXCEPT !.pc = "done",
                                   !.received = Embeddings(outcome.n),
                                   !.result = CheckedEmbeddings(Embeddings(outcome.n),
                                                                embedder.chunks)]
               ELSE IF IsInstance(outcome.raises, {"RateLimitError"})
               THEN IF retries < embedding_max_retries
                    THEN [called EXCEPT !.retries = retries,
                                        !.carried = Append(@, retry_after),
                                        !.slept = Append(@, wait_time),
                                        !.delay = @ * 2]
                    ELSE \* raise APIError(message): the class as the installed
                         \* openai package constructs it, or TypeError when its
                         \* constructor asks for more arguments
                         [called EXCEPT !.retries = retries, !.pc = "done",
                                        !.carried = Append(@, retry_after),
                                        !.raised = constructed,
                                        !.result = EmbeddingFailure(constructed)]
               ELSE [called EXCEPT !.pc = "done", !.raised = outcome.raises,
                                   !.result = EmbeddingFailure(outcome.raises)]
    /\ UNCHANGED <<pipeline, validator, scorer, ocr, openai, creds, extractor, indexer>>

NextEmbedder ==
    \/ SplitText
    \/ EmbeddingsAttempt

SpecEmbedder == InitEmbedder /\ [][NextEmbedder]_vars

(***************************************************************************)
(* C22 - embedding count law.  When generate_embeddings returns a result   *)
(* other than (None, None), it holds as many vectors as chunks, at least   *)
(* one of each, and they are the vectors the service returned and the      *)
(* chunks of the text; when the service returns a number of vectors other  *)
(* than the number of chunks the result is (None, None).                   *)
(***************************************************************************)
C22_EmbeddingCountLaw ==
    embedder.pc = "done"
        => LET embeddings == embedder.result[1]
               chunks == embedder.result[2]
           IN  /\ (embeddings # None \/ chunks # None)
                     => /\ embeddings.t = "list" /\ chunks.t = "list"
                        /\ Len(embeddings.v) = Len(chunks.v)
                        /\ Len(chunks.v) >= 1
                        /\ embeddings.v = embedder.received
                        /\ chunks.v = embedder.chunks
               /\ (embedder.client_calls > 0 /\ embedder.raised = "none"
                       /\ Len(embedder.received) # Len(embedder.chunks))
                     => embedder.result = << None, None >>

C22_Witness ==
    /\ embedder.pc = "done"
    /\ Len(embedder.chunks) = 2
    /\ Len(embedder.received) = 1
    /\ embedder.retries = 1
    /\ embedder.result = << None, None >>

(***************************************************************************)
(* AzureAISearchAdapter.upload_documents on its own: the method and the    *)
(* loop of _retry_aisearch_on_error around it                              *)
(***************************************************************************)
\* Defaults of _retry_aisearch_on_error
aisearch_max_retries == 3
aisearch_initial_delay == 10

\* Most documents in a batch, and most entries in the results of a call
MaxDocs == 4

Documents(n) == [i \in 1..n |-> [id |-> i]]
\* IndexingResult lists: result.succeeded of each entry
IndexingResults == UNION { [1..n -> [succeeded : BOOLEAN]] : n \in 0..MaxDocs }

\* How one call of search_client.merge_or_upload_documents ends
SearchOutcomes ==
    { [raises |-> "none", status_code |-> 0, results |-> PList(r)] : r \in IndexingResults }
        \cup { [raises |-> "none", status_code |-> 0, results |-> None] }
        \cup { [raises |-> e[1], status_code |-> e[2], results |-> None] :
                 e \in { <<"HttpResponseError", 429>>, <<"HttpResponseError", 503>>,
                         <<"HttpResponseError", 400>>, <<"ServiceRequestError", 0>>,
                         <<"KeyError", 0>> } }

\* Mutant: a batch with a rejected document is a failure
UploadVerdict_AllOrNothing(successful_uploads, errors) ==
    IF errors > 0
    THEN [raises |-> "AISearchError", returns |-> None]
    ELSE [raises |-> "none", returns |-> PBool(TRUE)]

\* Lines 163-175
UploadVerdict(successful_uploads, errors) ==
    IF errors > 0
    THEN IF successful_uploads > 0
         THEN [raises |-> "none", returns |-> PBool(TRUE)]
         ELSE [raises |-> "AISearchError", returns |-> None]
    ELSE [raises |-> "none", returns |-> PBool(TRUE)]

\* Lines 140-181: the try block on what the client did
upload_documents_body(outcome) ==
    LET raw ==
          IF outcome.raises # "none"
          THEN [raises |-> outcome.raises, returns |-> None]
          ELSE IF Truthy(outcome.results)
          THEN LET results == outcome.results.v
                   successful_uploads ==
                       Cardinality({i \in DOMAIN results : results[i].succeeded})
                   errors == Cardinality({i \in DOMAIN results : ~results[i].succeeded})
               IN  UploadVerdict(successful_uploads, errors)
          ELSE [raises |-> "none", returns |-> PBool(FALSE)]
    IN  IF raw.raises = "none" THEN raw
        ELSE IF IsInstance(raw.raises, {"AISearchError"}) THEN raw
        ELSE [raises |-> "AISearchError", returns |-> None]

InitIndexer ==
    /\ PipelineOff
    /\ validator = Off
    /\ scorer = Off
    /\ ocr = Off
    /\ openai = Off
    /\ creds = Off
    /\ extractor = Off
    /\ embedder = Off
    /\ indexer \in { [pc |-> "loop", documents |-> Documents(n), client_calls |-> 0,
                      client_results |-> None, retries |-> 0,
                      delay |-> aisearch_initial_delay, slept |-> <<>>,
                      raised |-> "none", returned |-> None] : n \in 0..MaxDocs }

\* Lines 28-74: one pass of the while loop of the wrapper around the method
UploadAttempt ==
    /\ indexer.pc = "loop"
    /\ indexer.retries < aisearch_max_retries
    /\ \E outcome \in SearchOutcomes :
         LET retries == indexer.retries + 1
             called == [indexer EXCEPT !.client_calls = @ + 1,
                                       !.client_results = outcome.results]
             r == upload_documents_body(outcome)
             again == [called EXCEPT !.retries = retries,
                                     !.slept = Append(@, indexer.delay),
                                     !.delay = @ * 2]
             gave_up == [called EXCEPT !.retries = retries, !.pc = "done",
                                       !.raised = "AISearchError"]
         IN  indexer' =
               IF Len(indexer.documents) = 0
               THEN [indexer EXCEPT !.pc = "done", !.returned = PBool(TRUE)]
               ELSE IF r.raises = "none"
               THEN [called EXCEPT !.pc = "done", !.returned = r.returns]
               ELSE IF IsInstance(r.raises, {"HttpResponseError"})
               THEN IF outcome.status_code \in {429, 503}
                    THEN IF retries < aisearch_max_retries THEN again ELSE gave_up
                    ELSE [called EXCEPT !.pc = "done", !.raised = "AISearchError"]
               ELSE IF IsInstance(r.raises, {"ServiceRequestError"})
               THEN IF retries < aisearch_max_retries THEN again ELSE gave_up
               ELSE [called EXCEPT !.pc = "done", !.raised = r.raises]
    /\ UNCHANGED <<pipeline, validator, scorer, ocr, openai, creds, extractor, embedder>>

NextIndexer == UploadAttempt

SpecIndexer == InitIndexer /\ [][NextIndexer]_vars

\* The documents the service reported as indexed in the call
IndexedDocuments ==
    IF indexer.client_results.t = "list"
    THEN {i \in DOMAIN indexer.client_results.v : indexer.client_results.v[i].succeeded}
    ELSE {}

(***************************************************************************)
(* C23 - index publish partial success.  For a non-empty batch             *)
(* upload_documents returns True exactly when the service reported at      *)
(* least one document as indexed; when it reported none, the call raises   *)
(* AISearchError, or returns False when the service returned no            *)
(* per-document results.                                                   *)
(***************************************************************************)
C23_PartialSuccessIsSuccess ==
    (indexer.pc = "done" /\ Len(indexer.documents) > 0)
        => /\ (indexer.returned = PBool(TRUE)) <=> (IndexedDocuments # {})
           /\ indexer.returned = PBool(TRUE) => indexer.raised = "none"
           /\ IndexedDocuments = {}
                 => \/ indexer.raised = "AISearchError" /\ indexer.returned = None
                    \/ /\ indexer.raised = "none"
                       /\ indexer.returned = PBool(FALSE)
                       /\ ~Truthy(indexer.client_results)

C23_Witness ==
    /\ indexer.pc = "done"
    /\ Len(indexer.documents) = 2
    /\ indexer.client_results = PList(<< [succeeded |-> FALSE], [succeeded |-> TRUE] >>)
    /\ indexer.returned = PBool(TRUE)

(***************************************************************************)
(* C24 - trigger filtering.  An event whose item has no name, lies in a    *)
(* container other than the intake container, or lies under a sub-path of  *)
(* the intake container (an "error" sub-path in particular) is ignored:    *)
(* the run ends without a collaborator call, without a record, without a   *)
(* status update, without deleting or moving the item, and without         *)
(* raising.                                                                *)
(***************************************************************************)
C24_Container(name) == SubSeq(name, 1, FirstIndex(name, "/") - 1)
C24_PathInContainer(name) == SubSeq(name, FirstIndex(name, "/") + 1, Len(name))

C24_ToBeIgnored(name) ==
    \/ name = <<>>
    \/ /\ FirstIndex(name, "/") > 0
       /\ \/ Lower(C24_Container(name)) # <<CANDIDATES_CONTAINER>>
          \/ ~Without(C24_PathInContainer(name), "/")

C24_IgnoredEventsHaveNoEffect ==
    (pc \notin {"off", "idle", "start"} /\ C24_ToBeIgnored(blob_name))
        => /\ pc = "done"
           /\ calls = <<>>
           /\ partial_results = {}
           /\ error_area = {}
           /\ source
           /\ loc = InitLocals
           /\ exc = "none"
           /\ escaped = "none"

C24_Witness ==
    /\ pc = "done"
    /\ run = 1
    /\ blob_name = <<"candidates", "/", "error", "/", "r1", "_", "c1", ".", "pdf">>
    /\ calls = <<>>
    /\ source

(***************************************************************************)
(* C25 - error message cap.  Every error message passed to                 *)
(* update_candidate has at most 1000 characters, however long the text of  *)
(* the exception is; the update of a run in which nothing failed passes    *)
(* None, and a run that succeeded has sent it.                             *)
(***************************************************************************)
C25_ErrorMessagesAreCapped ==
    pc # "off"
        => /\ \A i \in ErrorStatusIdx : calls[i].arg.len <= 1000
           /\ exc = "none" => ErrorStatusIdx = {}
           /\ loc.processed_successfully
                 => /\ SuccessStatusIdx # {}
                    /\ ErrorStatusIdx = {}

C25_Witness ==
    /\ Done
    /\ \E i \in ErrorStatusIdx :
          /\ calls[i].arg.len = 1000
          /\ calls[i].arg.v = <<"Error en ", "ValidationOrCalculation", ": ",
                                "JSONValidationError", ": ", "detail">>

(***************************************************************************)
(* C26 - context schema check.  When get_resumen returns without raising   *)
(* and what it returns does not hold both profileDescription and           *)
(* variablesContent, the run raises APIError at that point, is handled as  *)
(* an early failure, and never calls analyze_cv or get_completion.         *)
(***************************************************************************)
C26_HoldsBothFields(body) ==
    /\ body.t = "dict"
    /\ DictGet(body, "profileDescription") # None
    /\ DictGet(body, "variablesContent") # None

C26_MissingFieldIsApiError ==
    \A i \in OkIdx("get_resumen") :
        ~C26_HoldsBothFields(calls[i].ret)
            => /\ exc = "APIError"
               /\ pc \in {"early_handler", "finally", "done"}
               /\ CallIdx("analyze_cv") = {}
               /\ CallIdx("get_completion") = {}
               /\ CallIdx("upload_blob") = {}

(***************************************************************************)
(* C27 - an empty completion is an error.  When the completion client      *)
(* returns no choices or an empty content, get_completion raises           *)
(* OpenAIError and returns nothing, the run is handled as a failure, the   *)
(* validator is not invoked (it only ever receives a non-empty text) and   *)
(* no success status is reported.                                          *)
(***************************************************************************)
C27_EmptyIdx ==
    {i \in CallIdx("get_completion") : calls[i].client[Len(calls[i].client)] = "empty"}

C27_EmptyCompletionIsAnError ==
    pc # "off"
        => /\ \A i \in C27_EmptyIdx :
                 /\ ~calls[i].ok
                 /\ calls[i].ret = None
                 /\ exc = "OpenAIError"
                 /\ pc \in {"early_handler", "finally", "done"}
                 /\ loc.analysis_result_str = None
                 /\ loc.cv_score = None /\ loc.cv_analysis = None /\ loc.candidate_name = None
                 /\ ~loc.processed_successfully
                 /\ SuccessStatusIdx = {}
           /\ pc = "validate"
                 => /\ loc.analysis_result_str.t = "str"
                    /\ loc.analysis_result_str.v # ""

C27_Witness ==
    /\ Done
    /\ C27_EmptyIdx # {}
    /\ exc = "OpenAIError"
    /\ \E i \in ErrorStatusIdx : calls[i].ok
    /\ ~source

(***************************************************************************)
(* C28 - configuration errors are detected at construction.  When an       *)
(* option an adapter uses in its collaborator calls is missing, building   *)
(* the adapters raises ValueError and the run makes no get_resumen,        *)
(* analyze_cv or get_completion call.                                      *)
(***************************************************************************)
C28_OptionMissing ==
    /\ pc \notin {"off", "idle", "start", "ids", "adapters"}
    /\ loc.blob_service_client
    /\ \/ ~loc.doc_intel_adapter
       \/ ~loc.openai_adapter
       \/ ~loc.openai_deployment
       \/ ~loc.rest_api_adapter

C28_ConfigurationFailsAtConstruction ==
    C28_OptionMissing
        => /\ exc = "ValueError"
           /\ CallIdx("get_resumen") = {}
           /\ CallIdx("analyze_cv") = {}
           /\ CallIdx("get_completion") = {}

(***************************************************************************)
(* Re-delivery: the item can be removed from the intake container by       *)
(* another run of the function while this run is under way                 *)
(***************************************************************************)
ItemRemoved ==
    /\ pc \notin {"off", "idle", "done"}
    /\ source
    /\ source' = FALSE
    /\ UNCHANGED <<blob_name, run, pc, loc, exc, escaped, partial_results, error_area, calls>>
    /\ UNCHANGED units

NextRedelivery ==
    \/ NextPublish
    \/ ItemRemoved

SpecRedelivery == InitPublish /\ [][NextRedelivery]_vars

\* The deletions this run attempted when the item was no longer there
NotFoundIdx == {i \in CallIdx("delete_blob") : calls[i].raised = "ResourceNotFoundError"}

(***************************************************************************)
(* C29 - re-delivery tolerance.  When the item is no longer there at the   *)
(* time a run deletes it, no exception leaves the run, nothing is done     *)
(* after the attempt (no error status in particular), and the run ends as  *)
(* it would have: a run in which nothing failed is a success with its      *)
(* success status sent, a failed run keeps the failure it handled.         *)
(***************************************************************************)
C29_MissingItemIsBenign ==
    \A d \in NotFoundIdx :
        /\ escaped = "none"
        /\ d = Len(calls)
        /\ \A e \in ErrorStatusIdx : e < d
        /\ ~source
        /\ ~calls[d].ok
        /\ exc = "none"
              => /\ loc.processed_successfully
                 /\ SuccessStatusIdx # {}
                 /\ ErrorStatusIdx = {}
        /\ exc # "none"
              => /\ ~loc.processed_successfully
                 /\ SuccessStatusIdx = {} \/ \A i \in SuccessStatusIdx : ~calls[i].ok

C29_Witness ==
    /\ Done
    /\ NotFoundIdx # {}
    /\ loc.processed_successfully
    /\ escaped = "none"
    /\ \E i \in SuccessStatusIdx : calls[i].ok

(***************************************************************************)
(* Termination: the function and the two retry wrappers, each taking its   *)
(* next step whenever it has one.  A call of a collaborator ends (it       *)
(* returns or raises), so a step that can be taken is taken; the arrival   *)
(* of a new event is left to the environment.                              *)
(***************************************************************************)
InitTermination == InitPublish \/ InitOcr \/ InitOpenai

\* A statement of a run that is under way
RunStep ==
    /\ pc \notin {"off", "idle", "done"}
    /\ NextPublish

NextTermination == NextPublish \/ NextOcr \/ NextOpenai

SpecTermination ==
    /\ InitTermination
    /\ [][NextTermination]_vars
    /\ WF_vars(RunStep)
    /\ WF_vars(NextOcr)
    /\ WF_vars(NextOpenai)

\* The place of a position in the text of the function
StageRank(p) ==
    CASE p = "start" -> 1
      [] p = "ids" -> 2
      [] p = "adapters" -> 3
      [] p = "get_resumen" -> 4
      [] p = "analyze_cv" -> 5
      [] p = "get_completion" -> 6
      [] p = "validate" -> 7
      [] p = "average" -> 8
      [] p = "add_scores" -> 9
      [] p = "save_resumen" -> 10
      [] p = "update_candidate" -> 11
      [] p \in {"early_handler", "late_handler", "unexpected_handler"} -> 12
      [] p = "finally" -> 13
      [] p = "done" -> 14
      [] OTHER -> 0

RunUnderWay == pc \notin {"off", "idle", "done"}
C30_OcrLooping == ocr # Off /\ ocr.pc = "loop"
C30_OcrEnded == ocr # Off /\ ocr.pc = "done" /\ ocr.client_calls <= max_retries
C30_OpenaiLooping == openai # Off /\ openai.pc = "loop"
C30_OpenaiEnded ==
    openai # Off /\ openai.pc = "done" /\ openai.client_calls <= rate_limit_max_retries

(***************************************************************************)
(* C30 - termination.  Every run of process_candidate_cv that has started  *)
(* reaches the end of its finally clause; every call of one of the two     *)
(* retry wrappers ends after at most max_retries calls of the client; and  *)
(* within a run the position only moves forward in the text of the         *)
(* function, so no stage is entered twice.                                 *)
(***************************************************************************)
C30_EveryRunEnds ==
    /\ RunUnderWay ~> Done
    /\ C30_OcrLooping ~> C30_OcrEnded
    /\ C30_OpenaiLooping ~> C30_OpenaiEnded
    /\ [][ (pc' # pc /\ run' = run) => StageRank(pc') > StageRank(pc) ]_vars
    /\ [](\A i \in CallIdx("get_completion") :
             Len(calls[i].client) <= rate_limit_max_retries)

C30_Witness ==
    /\ Done
    /\ exc = "OpenAIError"
    /\ CallIdx("get_completion") # {}
    /\ ErrorStatusIdx # {}
    /\ escaped = "none"

\* The key of the partial record of an item: lines 186 and 343-344
C31_Key(file_name, failed_step) ==
    ResultFilename(get_id_rank(file_name), get_id_candidate(file_name), failed_step)

\* Names of items of the intake container that differ from one another
C31_ItemNames ==
    { <<"r1", "_", "c1", ".", "pdf">>,
      <<"r1", "_", "c1", ".", "docx">>,
      <<"r1", "_", "c1", "_", "v2", ".", "pdf">> }

(***************************************************************************)
(* C31 - the partial-result sink is write-once.  A record written under a  *)
(* key is still there, unchanged, after every later step of this run and   *)
(* of every later run.                                                     *)
(***************************************************************************)
C31_SinkIsWriteOnce == [][\A b \in partial_results : b \in partial_results']_vars

\* The other half of C31: two items whose names differ have different keys
\* for the same failed step
C31_KeysAreDistinct ==
    \A a \in C31_ItemNames, b \in C31_ItemNames :
        a # b => C31_Key(a, "Unexpected") # C31_Key(b, "Unexpected")

\* The criterion letters of the context ResumenFull ("A, B, C")
C32_Criteria == {"A", "B", "C"}

\* The letters of an accepted score list, in order
C32_Letters(cv_score) == [i \in DOMAIN cv_score.v |-> cv_score.v[i].v["Letter"].v]

(***************************************************************************)
(* C32 - score keys match the criteria.  When validation accepts a payload *)
(* in a run whose context named the criteria A, B and C, the letters of    *)
(* the accepted scores are exactly A, B and C, each once.                  *)
(***************************************************************************)
C32_ScoreKeysMatchCriteria ==
    (pc = "average" /\ loc.resumen_data = ResumenFull /\ loc.cv_score.t = "list")
        => LET letters == C32_Letters(loc.cv_score)
           IN  /\ {letters[i] : i \in DOMAIN letters} = C32_Criteria
               /\ \A i, j \in DOMAIN letters : letters[i] = letters[j] => i = j

\* The collaborator calls of the stages, in the order of the text
StageOps == <<"get_resumen", "analyze_cv", "get_completion",
              "add_scores", "save_resumen", "update_candidate">>
StageOf(op) == CHOOSE k \in DOMAIN StageOps : StageOps[k] = op
\* The stage calls of the run: every call of a stage but the error reports
StageIdx ==
    {i \in DOMAIN calls :
        /\ \E k \in DOMAIN StageOps : StageOps[k] = calls[i].op
        /\ calls[i].op = "update_candidate" => calls[i].arg = None}

(***************************************************************************)
(* C33 - strict stage order.  In every run the stage calls occur in the    *)
(* order get_resumen, analyze_cv, get_completion, add_scores,              *)
(* save_resumen, update_candidate(success), each at most once; a stage is  *)
(* called only after the stage before it returned; get_resumen is called   *)
(* only with the identifiers extracted; add_scores only after validation   *)
(* and the average returned their results.                                 *)
(***************************************************************************)
C33_StrictStageOrder ==
    /\ \A i \in StageIdx, j \in StageIdx :
          i < j => StageOf(calls[i].op) < StageOf(calls[j].op)
    /\ \A j \in StageIdx :
          StageOf(calls[j].op) > 1
             => \E i \in StageIdx :
                   /\ i < j
                   /\ StageOf(calls[i].op) = StageOf(calls[j].op) - 1
                   /\ calls[i].ok
    /\ CallIdx("get_resumen") # {} => loc.rank_id # <<>> /\ loc.candidate_id # <<>>
    /\ CallIdx("get_completion") # {}
          => Truthy(loc.resumen_data) /\ Truthy(loc.extracted_text)
    /\ CallIdx("add_scores") # {}
          => loc.cv_score # None /\ loc.cv_analysis # None /\ loc.promedio_scores # None

C33_Witness ==
    /\ Done
    /\ \A k \in DOMAIN StageOps : \E i \in StageIdx : calls[i].op = StageOps[k] /\ calls[i].ok
    /\ loc.processed_successfully

(***************************************************************************)
(* The two stage adapters side by side                                     *)
(***************************************************************************)
InitStages == InitOcr \/ InitOpenai
NextStages == NextOcr \/ NextOpenai
SpecStages == InitStages /\ [][NextStages]_vars

\* What may leave analyze_cv and get_completion
C34_OcrTaxonomy == {"none", "DocumentIntelligenceError", "NoContentExtractedError"}
C34_OpenaiTaxonomy == {"none", "OpenAIError"}

C35_AuthenticationFailureIsNotRetried ==
    \A i \in 1..ocr.client_calls :
        ocr.client_script[i] = "ClientAuthenticationError"
            => /\ ocr.pc = "done"
               /\ ocr.client_calls = i
               /\ Len(ocr.slept) = i - 1
               /\ ocr.raised = "DocumentIntelligenceError"
               /\ ocr.returned = None

C35_Witness ==
    /\ ocr.pc = "done"
    /\ ocr.client_script[1] = "ClientAuthenticationError"
    /\ ocr.client_calls = 1
    /\ ocr.slept = << >>
    /\ ocr.raised = "DocumentIntelligenceError"

\* The backoff delay before retry number i: 5 s doubled after each retry
RECURSIVE BackoffDelay(_)
BackoffDelay(i) == IF i <= 1 THEN embedding_initial_delay ELSE 2 * BackoffDelay(i - 1)

\* The calls of the embedding service that raised RateLimitError so far
RateLimited == Len(embedder.carried)

(***************************************************************************)
(* C36 - embedding retry.  Every call of the embedding service but the     *)
(* last one raised RateLimitError and was followed by one wait: the delay  *)
(* the error carried, or without one the backoff delay 5, 10, 20, 40.      *)
(* When the service answers on its N-th call (N <= 5) with as many vectors *)
(* as chunks, generate_embeddings returns them after exactly N calls.      *)
(* After 5 rate-limit errors in a row no 6th call is made and the result   *)
(* is (None, None).  Any other exception ends the stage at that call with  *)
(* (None, None).                                                           *)
(***************************************************************************)
C36_EmbeddingRetry ==
    embedder.pc \in {"loop", "done"} /\ embedder.client_calls > 0
        => /\ embedder.client_calls <= embedding_max_retries
           /\ embedder.retries = RateLimited
           /\ \A i \in DOMAIN embedder.slept :
                 embedder.slept[i] = IF embedder.carried[i] # 0
                                     THEN embedder.carried[i]
                                     ELSE BackoffDelay(i)
           /\ embedder.pc = "loop"
                 => /\ embedder.client_calls = RateLimited
                    /\ Len(embedder.slept) = RateLimited
           /\ (embedder.pc = "done" /\ RateLimited = embedding_max_retries)
                 => /\ embedder.client_calls = embedding_max_retries
                    /\ Len(embedder.slept) = embedding_max_retries - 1
                    /\ embedder.result = << None, None >>
           /\ (embedder.pc = "done" /\ RateLimited < embedder.client_calls)
                 => /\ embedder.client_calls = RateLimited + 1
                    /\ Len(embedder.slept) = RateLimited
                    /\ embedder.raised # "none" => embedder.result = << None, None >>
                    /\ (embedder.raised = "none"
                            /\ Len(embedder.received) = Len(embedder.chunks))
                          => embedder.result =
                                << PList(embedder.received), PList(embedder.chunks) >>

C36_Witness ==
    /\ embedder.pc = "done"
    /\ embedder.client_calls = embedding_max_retries
    /\ embedder.carried = << 0, 7, 0, 0 >>
    /\ embedder.slept = << 5, 7, 20, 40 >>
    /\ embedder.result[1] # None

\* The run went through _save_intermediate_result_and_cleanup
C37_SaveAttempted == CallIdx("upload_blob") # {}

(***************************************************************************)
(* C37 - save before delete.  In a run whose handler saves the partial     *)
(* record, the source item is deleted only after the upload of the record  *)
(* returned; when the upload fails it is the last thing the run does: no   *)
(* status is sent, no deletion is attempted and the item stays.            *)
(***************************************************************************)
C37_SaveBeforeDelete ==
    /\ \A u \in CallIdx("upload_blob") :
          IF calls[u].ok
          THEN \E b \in partial_results : PName(b.name) = calls[u].arg
          ELSE /\ u = Len(calls)
               /\ CallIdx("delete_blob") = {}
               /\ ErrorStatusIdx = {}
               /\ source
    /\ (Failed /\ pc \in {"finally", "done"} /\ IntermediateAvailable
           /\ HandlerOf(exc) # "early_handler")
          => \A d \in CallIdx("delete_blob") :
                \E u \in OkIdx("upload_blob") : u < d

C37_Witness ==
    /\ Done
    /\ \E u \in CallIdx("upload_blob") : ~calls[u].ok
    /\ source
    /\ escaped = "none"
    /\ partial_results = {}

\* The error report of the run was attempted outside the two helper
\* functions (lines 515-526: late failure without the intermediate data)
C38_ReportedInline == HandlerOf(exc) = "late_handler" /\ ~IntermediateAvailable

(***************************************************************************)
(* C38 - status reporting is best effort.  When the error report of a      *)
(* handler fails, the deletion of the source item is attempted right after *)
(* it, and neither the failed report nor a failed deletion leaves the      *)
(* handler as an exception.                                                *)
(***************************************************************************)
C38_ReportIsBestEffort ==
    /\ \A i \in ErrorStatusIdx :
          (~calls[i].ok /\ ~C38_ReportedInline)
             => /\ i < Len(calls)
                /\ calls[i + 1].op = "delete_blob"
                /\ escaped = "none"
                /\ pc \in {"finally", "done"}
    /\ \A d \in CallIdx("delete_blob") :
          ~calls[d].ok => escaped = "none" /\ pc \in {"finally", "done"}

C38_Witness ==
    /\ Done
    /\ \E i \in ErrorStatusIdx :
          /\ ~calls[i].ok
          /\ calls[i + 1].op = "delete_blob"
          /\ ~calls[i + 1].ok
    /\ escaped = "none"
    /\ PartialWrittenIdx # {}

\* A run that ended in the last except clause
C39_UnexpectedRun == Failed /\ HandlerOf(exc) = "unexpected_handler" /\ pc \in {"finally", "done"}
\* The completion text, the context and the extracted text are at hand
C39_DataAtHand ==
    /\ Truthy(loc.analysis_result_str)
    /\ Truthy(loc.resumen_data)
    /\ Truthy(loc.extracted_text)

(***************************************************************************)
(* C39 - unexpected exceptions are classified by progress.  A run ended by *)
(* an exception that neither typed clause catches is a late failure when   *)
(* the completion text, the context and the extracted text are at hand:    *)
(* the partial record is uploaded with failed step "Unexpected" and, once  *)
(* saved, the item is reported and deleted.  Otherwise it is an early      *)
(* failure: the error status is attempted, the deletion is attempted and   *)
(* no partial record is written.                                           *)
(***************************************************************************)
C39_UnexpectedClassifiedByProgress ==
    C39_UnexpectedRun
        => IF C39_DataAtHand
           THEN /\ escaped = "none" => CallIdx("upload_blob") # {}
                /\ \A u \in CallIdx("upload_blob") :
                      calls[u].arg = PName(ResultFilename(loc.rank_id, loc.candidate_id,
                                                          "Unexpected"))
                /\ PartialWrittenIdx # {}
                      => /\ \E b \in RecordAt("Unexpected") :
                               b.data.failure_info.failed_step = "Unexpected"
                         /\ ErrorStatusIdx # {}
                         /\ \E d \in CallIdx("delete_blob") :
                               \A u \in PartialWrittenIdx : u < d
           ELSE /\ CallIdx("upload_blob") = {}
                /\ loc.blob_service_client
                      => /\ CallIdx("delete_blob") # {}
                         /\ (loc.rest_api_adapter /\ loc.candidate_id # <<>>)
                               => \E i \in ErrorStatusIdx :
                                     \A d \in CallIdx("delete_blob") : i < d

C39_Witness ==
    /\ Done
    /\ C39_UnexpectedRun
    /\ C39_DataAtHand
    /\ exc = "RecursionError"
    /\ RecordAt("Unexpected") # {}
    /\ SourceDeletedIdx # {}

\* The early case of C39 is reached as well
C39_EarlyCaseReached ==
    /\ Done
    /\ C39_UnexpectedRun
    /\ ~C39_DataAtHand
    /\ ErrorStatusIdx # {}

\* The three publish calls of the run returned
C40_Published ==
    /\ OkIdx("add_scores") # {}
    /\ OkIdx("save_resumen") # {}
    /\ \E i \in SuccessStatusIdx : calls[i].ok

(***************************************************************************)
(* C40 - success is exclusive.  The deletion of the finally clause (the    *)
(* run holds its success flag) happens only in a run in which add_scores,  *)
(* save_resumen and update_candidate(None) all returned; such a run sends  *)
(* no error status and uploads no partial record.  A run that sends an     *)
(* error status or uploads a partial record holds no success flag and no   *)
(* returned success status.                                                *)
(***************************************************************************)
C40_SuccessIsExclusive ==
    /\ loc.processed_successfully
          => /\ C40_Published
             /\ ErrorStatusIdx = {}
             /\ CallIdx("upload_blob") = {}
             /\ ~Failed
    /\ (~Failed /\ CallIdx("delete_blob") # {})
          => /\ loc.processed_successfully
             /\ \A d \in CallIdx("delete_blob") : \A i \in DOMAIN calls : i <= d
    /\ (ErrorStatusIdx # {} \/ CallIdx("upload_blob") # {})
          => /\ ~loc.processed_successfully
             /\ \A i \in SuccessStatusIdx : ~calls[i].ok
             /\ Failed

C40_Witness ==
    /\ Done
    /\ loc.processed_successfully
    /\ C40_Published
    /\ SourceDeletedIdx # {}
    /\ ~source
    /\ ErrorStatusIdx = {}

=============================================================================
